---- MODULE Spec2Model ----
(***************************************************************************)
(* A model of the task scheduler of multi_agent_schedule_task:             *)
(* TaskScheduler.execute_task and the coroutines it spawns                 *)
(* (scheduler.py), the ContextManager it writes to (context.py) and the    *)
(* ToolRegistry it reads (registry.py).                                    *)
(*                                                                         *)
(* One step of the model is one atomic segment of the asyncio event loop   *)
(* (the code between two awaits of one coroutine) or one event of the      *)
(* ThreadPoolExecutor (a worker picks a job up, a tool's run returns or    *)
(* raises).  Strings that the code only compares are TLA+ strings; the     *)
(* condition string, which the code takes apart, is a sequence of          *)
(* characters.  Python's None is the string "None".                               *)
(***************************************************************************)
EXTENDS Integers, Sequences, FiniteSets, TLC

VARIABLES
    registry,      \* ToolRegistry._tools: tool name -> tool instance
    max_workers,   \* TaskScheduler.max_workers (size of the thread pool)
    context,       \* ContextManager._context: scope -> key -> entry
    pc,            \* position of the execute_task coroutine
    config,        \* the TaskFlowConfig handed to execute_task
    step_results,  \* the step_results dict of the run: step id -> StepResult
    result,        \* the TaskExecutionResult returned (NoResult while running)
    wave,          \* number of waves dispatched so far
    groups,        \* the parallel_groups list built by the current wave
    group_started, \* group tasks of the wave whose coroutine has started
    tasks,         \* per step (position in config.steps): its coroutine
    queue,         \* ThreadPoolExecutor work queue (jobs not yet picked up)
    running,       \* jobs being executed by a worker thread
    calls,         \* history: per step, the tool.run invocations made
    status_log,    \* history: per step id, the statuses written to it
    scan_pending,  \* history: number of PENDING results the last scan began with
    now,           \* time.time(), an integer clock
    expiration_time, \* ContextManager._expiration_time (the TTL)
    ret            \* the value returned by the last ContextManager call

vars == <<registry, max_workers, context, pc, config, step_results, result,
          wave, groups, group_started, tasks, queue, running, calls,
          status_log, scan_pending, now, expiration_time, ret>>

(***************************************************************************)
(* Bounds of the model.                                                    *)
(***************************************************************************)
MaxRetry == 1      \* largest retry_count of a step
MaxWorkers == 2    \* largest max_workers of a scheduler
MaxDeps == 2       \* largest number of dependencies of a step
MaxTime == 2       \* largest value of the clock
MaxTTL == 1        \* largest expiration_time of a context store
MaxRegistrations == 2   \* largest number of registrations of one name

None == "None"

(* the step ids of the flows, in the order of their steps *)
IdNames == <<"a", "b", "c">>
StepIds == {IdNames[i] : i \in 1..Len(IdNames)}

(***************************************************************************)
(* StepStatus                                                              *)
(***************************************************************************)
PENDING == "PENDING"
RUNNING == "RUNNING"
COMPLETED == "COMPLETED"
FAILED == "FAILED"
SKIPPED == "SKIPPED"

(* StepResult(step_id, status) with the dataclass defaults *)
StepResult(id, status) ==
    [step_id |-> id, status |-> status, output |-> None, error |-> None,
     retry_count |-> 0, tool_used |-> None]

Range(s) == {s[i] : i \in 1..Len(s)}

(***************************************************************************)
(* Tools.  A tool is external code: its run either returns a value or      *)
(* raises.  The value and the error text carry the name of the tool that   *)
(* produced them (and the error the number of the call), so that the       *)
(* provenance of an output or an error can be read off a StepResult.       *)
(* Two tools are special: what "nul" returns is None, and the exception    *)
(* "mute" raises has the empty message, so that str(e) is "".              *)
(***************************************************************************)
ToolOutput(tool) == IF tool = "nul" THEN None ELSE "out_" \o tool
ToolError(tool, n) ==
    IF tool = "mute" THEN "" ELSE "err_" \o tool \o "_" \o ToString(n)
ToolNotFound(tool) == "Tool '" \o tool \o "' not found"

(* ToolRegistry.get_tool: the instance or None *)
get_tool(reg, name) == IF name \in DOMAIN reg THEN reg[name] ELSE None

(* Tool classes handed to register_tool: "A" and "B" are concrete          *)
(* subclasses of BaseTool, "BaseTool" is the abstract class itself, "dict" *)
(* is a class that does not inherit from BaseTool.                         *)
ToolClasses == {"A", "B", "BaseTool", "dict"}

(* issubclass(tool_class, BaseTool) *)
IsSubclassOfBaseTool(cls) == cls \in {"A", "B", "BaseTool"}

(* tool_class() returns an object; an abstract class raises TypeError *)
Instantiable(cls) == cls \in {"A", "B"}

(* the object made by the k-th call of tool_class() for a registry name:  *)
(* every call makes a new object                                          *)
Instance(cls, name, k) == [class |-> cls, name |-> name, serial |-> k]

(* the number of objects made so far for the name *)
Generation(reg, name) == IF name \in DOMAIN reg THEN reg[name].serial ELSE 0

(* a registration that keeps the instance a name already has *)
register_tool_KeepsFirst(reg, name, cls) ==
    IF ~IsSubclassOfBaseTool(cls) \/ ~Instantiable(cls)
           \/ name \in DOMAIN reg THEN reg
    ELSE [n \in DOMAIN reg \cup {name} |->
             IF n = name THEN Instance(cls, name, Generation(reg, name) + 1)
             ELSE reg[n]]

(* ToolRegistry.register_tool: the registry it leaves *)
register_tool(reg, name, cls) ==
    IF ~IsSubclassOfBaseTool(cls) \/ ~Instantiable(cls) THEN reg
    ELSE [n \in DOMAIN reg \cup {name} |->
             IF n = name THEN Instance(cls, name, Generation(reg, name) + 1)
             ELSE reg[n]]

(* ToolRegistry.register_tool: the exception it raises, or None *)
register_tool_raises(cls) ==
    IF ~IsSubclassOfBaseTool(cls) THEN "ValueError"
    ELSE IF ~Instantiable(cls) THEN "TypeError"
    ELSE None

(***************************************************************************)
(* ContextManager                                                          *)
(***************************************************************************)
GLOBAL == "global"

(* the key f"step_{step.id}_output" *)
OutputKey(id) == "step_" \o id \o "_output"

(* step_id or "global": None and "" name the global scope *)
Scope(step_id) == IF step_id \in {None, ""} THEN GLOBAL ELSE step_id

(* a set that files every entry under the global scope *)
ctx_set_AlwaysGlobal(ctx, key, value, step_id, t) ==
    LET c1 == IF GLOBAL \notin DOMAIN ctx THEN (GLOBAL :> <<>>) @@ ctx ELSE ctx
        entry == [value |-> value, timestamp |-> t, step_id |-> step_id]
    IN  [c1 EXCEPT ![GLOBAL] = (key :> entry) @@ c1[GLOBAL]]

(* a set that stores nothing *)
ctx_set_Lost(ctx, key, value, step_id, t) == ctx

(* ContextManager.set(key, value, step_id) at time t.  The scope is made   *)
(* empty when step_id itself (not step_id or "global") is not a key of    *)
(* the store.                                                             *)
ctx_set(ctx, key, value, step_id, t) ==
    LET scope == Scope(step_id)
        c1 == IF step_id \notin DOMAIN ctx
              THEN (scope :> <<>>) @@ ctx
              ELSE ctx
        entry == [value |-> value, timestamp |-> t, step_id |-> step_id]
    IN  [c1 EXCEPT ![scope] = (key :> entry) @@ c1[scope]]

(* current_time - timestamp > expiration_time *)
(* an expiry test that already drops an entry whose age equals the        *)
(* expiration time                                                         *)
Expired_AtTTL(entry, t, ttl) == t - entry.timestamp >= ttl

(* time.time() - entry["timestamp"] > self._expiration_time *)
Expired(entry, t, ttl) == t - entry.timestamp > ttl

(* the dict d without key k *)
Without(d, k) == [x \in DOMAIN d \ {k} |-> d[x]]

(* ContextManager.get(key, step_id, default) at time t: the value returned *)
ctx_get(ctx, key, step_id, default, t, ttl) ==
    LET scope == Scope(step_id) IN
    IF scope \in DOMAIN ctx /\ key \in DOMAIN ctx[scope]
    THEN IF Expired(ctx[scope][key], t, ttl) THEN default
         ELSE ctx[scope][key].value
    ELSE default

(* ContextManager.get: the store it leaves (del step_context[key] of an   *)
(* expired entry)                                                         *)
ctx_get_store(ctx, key, step_id, t, ttl) ==
    LET scope == Scope(step_id) IN
    IF scope \in DOMAIN ctx /\ key \in DOMAIN ctx[scope]
           /\ Expired(ctx[scope][key], t, ttl)
    THEN [ctx EXCEPT ![scope] = Without(@, key)]
    ELSE ctx

(* ContextManager.get_all(step_id) at time t: key -> value of the entries  *)
(* of the scope that are not expired.  The expired keys are deleted from  *)
(* a copy of the scope, the store keeps them.                             *)
ctx_get_all(ctx, step_id, t, ttl) ==
    LET scope == Scope(step_id) IN
    IF scope \in DOMAIN ctx
    THEN [k \in {x \in DOMAIN ctx[scope] : ~Expired(ctx[scope][x], t, ttl)}
             |-> ctx[scope][k].value]
    ELSE <<>>

(* ContextManager.clear(step_id): one scope, or everything when step_id   *)
(* is None or ""                                                          *)
ctx_clear(ctx, step_id) ==
    IF step_id \in {None, ""} THEN <<>>
    ELSE Without(ctx, step_id)

(* a cleanup that deletes the expired entries and keeps the scopes they   *)
(* leave empty                                                             *)
ctx_cleanup_KeepsEmptyScopes(ctx, t, ttl) ==
    [scope \in DOMAIN ctx |->
        [k \in {x \in DOMAIN ctx[scope] : ~Expired(ctx[scope][x], t, ttl)}
            |-> ctx[scope][k]]]

(* ContextManager.cleanup_expired at time t: the store it leaves *)
ctx_cleanup(ctx, t, ttl) ==
    LET live(scope) == {k \in DOMAIN ctx[scope] :
                            ~Expired(ctx[scope][k], t, ttl)}
        kept == {scope \in DOMAIN ctx : live(scope) # {}}
    IN  [scope \in kept |-> [k \in live(scope) |-> ctx[scope][k]]]

(* ContextManager.cleanup_expired at time t: the count it returns *)
ctx_cleanup_count(ctx, t, ttl) ==
    LET dead == {sk \in UNION {{<<scope, k>> : k \in DOMAIN ctx[scope]}
                                  : scope \in DOMAIN ctx} :
                     Expired(ctx[sk[1]][sk[2]], t, ttl)}
    IN  Cardinality(dead)

(***************************************************************************)
(* Pure helpers of the scheduler                                           *)
(***************************************************************************)
Chars(id) == <<id>>                     \* a step id (one character) as text
DepPrefix == <<"d", "e", "p", "_">>
NoCondition == <<>>                     \* condition None (or "")
DepCondition(id) == DepPrefix \o Chars(id)

StartsWith(text, prefix) ==
    /\ Len(text) >= Len(prefix)
    /\ SubSeq(text, 1, Len(prefix)) = prefix

(* a lookup that takes a step missing from step_results for completed *)
StatusOfText_UnknownCompleted(results, text) ==
    IF Len(text) = 1 /\ text[1] \in DOMAIN results
    THEN results[text[1]].status
    ELSE COMPLETED

(* step_results.get(dep_id, StepResult("", PENDING)).status *)
StatusOfText(results, text) ==
    IF Len(text) = 1 /\ text[1] \in DOMAIN results
    THEN results[text[1]].status
    ELSE PENDING

(* TaskScheduler._check_condition *)
CheckCondition(step, results) ==
    IF step.condition = NoCondition THEN TRUE
    ELSE IF StartsWith(step.condition, DepPrefix)
         THEN StatusOfText(results,
                  SubSeq(step.condition, 5, Len(step.condition))) = COMPLETED
         ELSE TRUE

(* a scan that takes every finished dependency, failed or skipped ones   *)
(* too, for a completed one                                               *)
DepsCompleted_AnyFinished(step, results) ==
    \A k \in 1..Len(step.dependencies) :
        results[step.dependencies[k]].status \in {COMPLETED, FAILED, SKIPPED}

(* deps_completed of the scan loop *)
DepsCompleted(step, results) ==
    \A k \in 1..Len(step.dependencies) :
        results[step.dependencies[k]].status = COMPLETED

(* The scan of _execute_steps over config.steps[i..]: returns the         *)
(* step_results after the SKIPPED writes and the ready steps (positions) *)
RECURSIVE ScanFrom(_, _, _, _)
ScanFrom(cfg, results, ready, i) ==
    IF i > Len(cfg.steps) THEN [results |-> results, ready |-> ready]
    ELSE LET step == cfg.steps[i] IN
         IF results[step.id].status = PENDING /\ DepsCompleted(step, results)
         THEN IF CheckCondition(step, results)
              THEN ScanFrom(cfg, results, Append(ready, i), i + 1)
              ELSE ScanFrom(cfg,
                            [results EXCEPT ![step.id].status = SKIPPED],
                            ready, i + 1)
         ELSE ScanFrom(cfg, results, ready, i + 1)

Scan(cfg, results) == ScanFrom(cfg, results, <<>>, 1)

(* TaskScheduler._group_parallel_steps; ready and the groups hold         *)
(* positions in cfg.steps                                                 *)
RECURSIVE GroupDeclared(_, _, _, _, _, _)
GroupDeclared(cfg, ready, pgroups, g, acc, used) ==
    IF g > Len(pgroups) THEN [groups |-> acc, used |-> used]
    ELSE LET InGroup(i) == /\ cfg.steps[i].id \in pgroups[g]
                           /\ cfg.steps[i].id \notin used
             group == SelectSeq(ready, InGroup)
         IN  IF group # <<>>
             THEN GroupDeclared(cfg, ready, pgroups, g + 1,
                      Append(acc, group),
                      used \cup {cfg.steps[group[k]].id : k \in 1..Len(group)})
             ELSE GroupDeclared(cfg, ready, pgroups, g + 1, acc, used)

(* a grouping that puts the single steps before the declared groups *)
GroupParallelSteps_RestFirst(cfg, ready) ==
    IF cfg.parallel_groups = <<>>
    THEN [k \in 1..Len(ready) |-> <<ready[k]>>]
    ELSE LET d == GroupDeclared(cfg, ready, cfg.parallel_groups, 1, <<>>, {})
             Unused(i) == cfg.steps[i].id \notin d.used
             rest == SelectSeq(ready, Unused)
         IN  [k \in 1..Len(rest) |-> <<rest[k]>>] \o d.groups

(* a grouping that leaves out the ready steps of no declared group *)
GroupParallelSteps_DeclaredOnly(cfg, ready) ==
    IF cfg.parallel_groups = <<>>
    THEN [k \in 1..Len(ready) |-> <<ready[k]>>]
    ELSE GroupDeclared(cfg, ready, cfg.parallel_groups, 1, <<>>, {}).groups

(* TaskScheduler._group_parallel_steps: the returned groups *)
GroupParallelSteps(cfg, ready) ==
    IF cfg.parallel_groups = <<>>
    THEN [k \in 1..Len(ready) |-> <<ready[k]>>]
    ELSE LET d == GroupDeclared(cfg, ready, cfg.parallel_groups, 1, <<>>, {})
             Unused(i) == cfg.steps[i].id \notin d.used
             rest == SelectSeq(ready, Unused)
         IN  d.groups \o [k \in 1..Len(rest) |-> <<rest[k]>>]

(* an error message that names the unknown dependency only *)
UnknownDependency_DepOnly(step_id, dep) == [step |-> "", unknown |-> dep]

(* the message f"Step '{step.id}' depends on unknown step '{dep}'" *)
UnknownDependency(step_id, dep) == [step |-> step_id, unknown |-> dep]

(* TaskScheduler._validate_config: the list of error messages *)
RECURSIVE ValidateFrom(_, _, _)
ValidateFrom(cfg, i, k) ==
    IF i > Len(cfg.steps) THEN <<>>
    ELSE IF k > Len(cfg.steps[i].dependencies) THEN ValidateFrom(cfg, i + 1, 1)
    ELSE LET dep == cfg.steps[i].dependencies[k]
             step_ids == {cfg.steps[j].id : j \in 1..Len(cfg.steps)}
         IN  IF dep \notin step_ids
             THEN <<UnknownDependency(cfg.steps[i].id, dep)>>
                      \o ValidateFrom(cfg, i, k + 1)
             ELSE ValidateFrom(cfg, i, k + 1)

ValidateConfig(cfg) == ValidateFrom(cfg, 1, 1)

(***************************************************************************)
(* ConfigParser.validate_config.  An error message is a record of its     *)
(* kind and of the names it quotes.  parallel_groups is a list of lists   *)
(* of ids here (None and [] are the empty list).                          *)
(***************************************************************************)
DuplicateIds(cfg) ==
    \E i, j \in 1..Len(cfg.steps) : i # j /\ cfg.steps[i].id = cfg.steps[j].id

(* "Duplicate step IDs found", once, when len(step_ids) != len(set(...)) *)
DuplicateErrors(cfg) ==
    IF DuplicateIds(cfg) THEN <<[kind |-> "duplicate"]>> ELSE <<>>

(* "Step '{step.id}' depends on non-existent step '{dep}'" *)
RECURSIVE DependencyErrors(_, _, _)
DependencyErrors(cfg, i, k) ==
    IF i > Len(cfg.steps) THEN <<>>
    ELSE IF k > Len(cfg.steps[i].dependencies)
    THEN DependencyErrors(cfg, i + 1, 1)
    ELSE LET dep == cfg.steps[i].dependencies[k]
             all_step_ids == {cfg.steps[j].id : j \in 1..Len(cfg.steps)}
             rest == DependencyErrors(cfg, i, k + 1)
         IN  IF dep \notin all_step_ids
             THEN <<[kind |-> "dependency", step |-> cfg.steps[i].id,
                     name |-> dep]>> \o rest
             ELSE rest

(* "Parallel group contains non-existent step '{step_id}'" *)
RECURSIVE GroupErrors(_, _, _)
GroupErrors(cfg, g, m) ==
    IF g > Len(cfg.parallel_groups) THEN <<>>
    ELSE IF m > Len(cfg.parallel_groups[g]) THEN GroupErrors(cfg, g + 1, 1)
    ELSE LET step_id == cfg.parallel_groups[g][m]
             all_step_ids == {cfg.steps[j].id : j \in 1..Len(cfg.steps)}
             rest == GroupErrors(cfg, g, m + 1)
         IN  IF step_id \notin all_step_ids
             THEN <<[kind |-> "group", name |-> step_id]>> \o rest
             ELSE rest

(* "Step '{step.id}' does not specify a tool" *)
RECURSIVE ToolErrors(_, _)
ToolErrors(cfg, i) ==
    IF i > Len(cfg.steps) THEN <<>>
    ELSE (IF cfg.steps[i].tool = ""
          THEN <<[kind |-> "tool", step |-> cfg.steps[i].id]>>
          ELSE <<>>) \o ToolErrors(cfg, i + 1)

(* a validation without the check for duplicate step ids *)
validate_config_NoDuplicateCheck(cfg) ==
    DependencyErrors(cfg, 1, 1) \o GroupErrors(cfg, 1, 1) \o ToolErrors(cfg, 1)

(* ConfigParser.validate_config(config): the list of errors *)
validate_config(cfg) ==
    DuplicateErrors(cfg) \o DependencyErrors(cfg, 1, 1)
        \o GroupErrors(cfg, 1, 1) \o ToolErrors(cfg, 1)

(* the key of a dependency's output in the input of a step *)
DepKey(d) == "dep_" \o d \o "_output"

(* an input assembly that adds a key for a dependency without output *)
PrepareStepInput_NullKeys(step, results) ==
    LET present == {d \in Range(step.dependencies) : d \in DOMAIN results}
        keys == DOMAIN step.parameters \cup {DepKey(d) : d \in present}
        DepOf(k) == CHOOSE d \in present : DepKey(d) = k
    IN  [k \in keys |->
            IF \E d \in present : DepKey(d) = k
            THEN results[DepOf(k)].output ELSE step.parameters[k]]

(* an input assembly that reads the outputs of the dependencies from the  *)
(* context store                                                          *)
PrepareStepInput_FromContext(step, results) ==
    LET Read(d) == ctx_get(context, OutputKey(d), d, None, now, expiration_time)
        present == {d \in Range(step.dependencies) : Read(d) # None}
        keys == DOMAIN step.parameters \cup {DepKey(d) : d \in present}
        DepOf(k) == CHOOSE d \in present : DepKey(d) = k
    IN  [k \in keys |->
            IF \E d \in present : DepKey(d) = k
            THEN Read(DepOf(k)) ELSE step.parameters[k]]

(* TaskScheduler._prepare_step_input: a copy of step.parameters with the  *)
(* key dep_<id>_output for every dependency that has a result with an     *)
(* output; the key of a dependency replaces a parameter of the same name  *)
PrepareStepInput(step, results) ==
    LET present == {d \in Range(step.dependencies) :
                        d \in DOMAIN results /\ results[d].output # None}
        keys == DOMAIN step.parameters \cup {DepKey(d) : d \in present}
        DepOf(k) == CHOOSE d \in present : DepKey(d) = k
    IN  [k \in keys |->
            IF \E d \in present : DepKey(d) = k
            THEN results[DepOf(k)].output ELSE step.parameters[k]]

(* a success flag that takes a skipped step for a failure *)
Success_CompletedOnly(results) ==
    \A id \in DOMAIN results : results[id].status = COMPLETED

(* the success flag computed by execute_task *)
Success(results) ==
    \A id \in DOMAIN results :
        results[id].status # SKIPPED => results[id].status = COMPLETED

(* a fallback loop that starts from the end of fallback_tools *)
NextFallback_LastKnown(step, reg, k) ==
    LET known == {j \in k..Len(step.fallback_tools) :
                      get_tool(reg, step.fallback_tools[j]) # None}
    IN  IF known = {} THEN 0
        ELSE CHOOSE j \in known : \A j2 \in known : j >= j2

(* The first fallback at position >= k of step.fallback_tools that the    *)
(* registry knows (the fallback loop of _execute_with_retry skips the     *)
(* others); 0 when there is none                                          *)
NextFallback(step, reg, k) ==
    LET known == {j \in k..Len(step.fallback_tools) :
                      get_tool(reg, step.fallback_tools[j]) # None}
    IN  IF known = {} THEN 0
        ELSE CHOOSE j \in known : \A j2 \in known : j <= j2

(* what config and result hold while execute_task has not been called  *)
(* or has not returned: no steps, no verdict                              *)
NoConfig == [steps |-> <<>>, parallel_groups |-> <<>>]
NoResult == [success |-> FALSE, error_summary |-> <<>>]

(***************************************************************************)
(* Coroutines.  tasks[i] is the coroutine _execute_step(config.steps[i]).  *)
(*   pc: "none"     not dispatched                                         *)
(*       "grouped"  member of a multi-step group whose                     *)
(*                  _execute_parallel_group task has not started           *)
(*       "created"  scheduled on the event loop, not started               *)
(*       "queued"   awaiting run_in_executor, job in the work queue        *)
(*       "running"  awaiting run_in_executor, tool.run on a worker thread  *)
(*       "finished" tool.run returned or raised, coroutine not resumed     *)
(*       "sleeping" awaiting asyncio.sleep(retry_delay)                    *)
(*       "done"     _execute_step returned                                 *)
(***************************************************************************)
NoTask ==
    [pc |-> "none", wave |-> 0, phase |-> "", attempt |-> 0, fb |-> 0,
     tool |-> "", input |-> <<>>, context |-> <<>>, last_error |-> None,
     outcome |-> [ok |-> FALSE, value |-> None]]

Init ==
    /\ registry = [n \in {"t", "f1", "f2", "nul", "mute"} |-> n]
    /\ max_workers \in 1..MaxWorkers
    /\ context = <<>>
    /\ pc = "idle"
    /\ config = NoConfig
    /\ step_results = <<>>
    /\ result = NoResult
    /\ wave = 0
    /\ groups = <<>>
    /\ group_started = {}
    /\ tasks = <<>>
    /\ queue = <<>>
    /\ running = {}
    /\ calls = <<>>
    /\ status_log = <<>>
    /\ scan_pending = 0
    /\ now = 0
    /\ expiration_time = MaxTTL
    /\ ret = None

(* The loop body of _execute_steps from the scan to the await of gather,  *)
(* and the return of execute_task when the scan finds no ready step       *)
ExecuteSteps(cfg, results, log, ts) ==
    LET sc == Scan(cfg, results)
        log1 == [id \in DOMAIN log |->
                    IF sc.results[id].status # results[id].status
                    THEN Append(log[id], sc.results[id].status) ELSE log[id]]
        gs == GroupParallelSteps(cfg, sc.ready)
        Single(i) == \E g \in 1..Len(gs) : gs[g] = <<i>>
        Member(i) == \E g \in 1..Len(gs) : i \in Range(gs[g])
    IN  /\ step_results' = sc.results
        /\ status_log' = log1
        /\ scan_pending' = Cardinality({id \in DOMAIN results :
                                           results[id].status = PENDING})
        /\ IF sc.ready = <<>>
           THEN /\ pc' = "returned"
                /\ result' = [success |-> Success(sc.results),
                              error_summary |-> <<>>]
                /\ wave' = wave
                /\ tasks' = ts
                /\ groups' = <<>>
           ELSE /\ pc' = "waiting"
                /\ result' = result
                /\ wave' = wave + 1
                /\ groups' = gs
                /\ tasks' = [i \in DOMAIN ts |->
                      IF Single(i)
                      THEN [NoTask EXCEPT !.pc = "created", !.wave = wave + 1]
                      ELSE IF Member(i)
                      THEN [NoTask EXCEPT !.pc = "grouped", !.wave = wave + 1]
                      ELSE ts[i]]
        /\ group_started' = {}

(***************************************************************************)
(* Flows handed to execute_task.                                           *)
(***************************************************************************)
StepConfig(id, tool, deps, retry, fallbacks, cond) ==
    [id |-> id, tool |-> tool, parameters |-> <<>>, dependencies |-> deps,
     retry_count |-> retry, fallback_tools |-> fallbacks, condition |-> cond]

(* a step with a parameters mapping *)
WithParameters(step, params) == [step EXCEPT !.parameters = params]

Plain(id, deps) == StepConfig(id, "t", deps, 0, <<>>, NoCondition)

(* dependency lists: ascending, without repetition, at most MaxDeps long *)
RECURSIVE DepListsOf(_)
DepListsOf(n) ==
    IF n = 0 THEN {<<>>}
    ELSE LET shorter == DepListsOf(n - 1) IN
         shorter \cup
         {Append(d, IdNames[i]) : d \in {e \in shorter : Len(e) = n - 1},
                                  i \in 1..Len(IdNames)}

Ascending(d) ==
    \A k \in 1..(Len(d) - 1) :
        \E i, j \in 1..Len(IdNames) :
            i < j /\ d[k] = IdNames[i] /\ d[k + 1] = IdNames[j]

DepLists == {d \in DepListsOf(MaxDeps) : Ascending(d)}

(* every dependency graph on up to Len(IdNames) plain steps: chains,      *)
(* forks, joins, cycles, self-dependencies and (in the shorter flows)     *)
(* dependencies on ids that no step has                                   *)
GraphFlows ==
    UNION {{[steps |-> [i \in 1..n |-> Plain(IdNames[i], d[i])],
             parallel_groups |-> <<>>] : d \in [1..n -> DepLists]}
           : n \in 0..Len(IdNames)}

(* conditions: dep_<id> for every step id, dep_ followed by nothing, and *)
(* a text that does not start with dep_                                   *)
Conditions ==
    {DepCondition(id) : id \in StepIds} \cup {DepPrefix, <<"x">>}

ShortDepLists == {d \in DepLists : Len(d) <= 1}

(* flows of steps with at most one dependency each, one of which carries  *)
(* a condition                                                            *)
ConditionFlows ==
    UNION {{[steps |-> [i \in 1..n |->
                 IF i = k
                 THEN StepConfig(IdNames[i], "t", d[i], 0, <<>>, c)
                 ELSE Plain(IdNames[i], d[i])],
             parallel_groups |-> <<>>]
            : d \in [1..n -> ShortDepLists], k \in 1..n, c \in Conditions}
           : n \in 1..Len(IdNames)}

(* fallback lists: "nope" is a name the registry does not know *)
FallbackLists ==
    {<<>>, <<"f1">>, <<"nope", "f1">>, <<"f1", "f2">>, <<"f1", "f1">>, <<"t">>}

(* retry and fallback policies of a step; "missing" is not registered *)
Policies ==
    {[tool |-> "t", retry_count |-> r, fallback_tools |-> f]
        : r \in 0..MaxRetry, f \in FallbackLists}
    \cup {[tool |-> "missing", retry_count |-> MaxRetry,
           fallback_tools |-> <<"f1">>]}

WithPolicy(id, deps, p) ==
    StepConfig(id, p.tool, deps, p.retry_count, p.fallback_tools, NoCondition)

(* the policies of the second step of a PolicyFlows flow *)
SecondPolicies ==
    {[tool |-> "t", retry_count |-> 0, fallback_tools |-> <<>>],
     [tool |-> "t", retry_count |-> MaxRetry, fallback_tools |-> <<"f1">>]}

(* a step with any policy and a second step, run in one wave or one after *)
(* the other, alone or followed by a plain step of a later wave, in one   *)
(* declared group or in none                                              *)
PolicyFlows ==
    {[steps |-> <<WithPolicy("a", <<>>, pa), WithPolicy("b", db, pb)>> \o tl,
      parallel_groups |-> pg]
        : pa \in Policies, pb \in SecondPolicies, db \in {<<>>, <<"a">>},
          tl \in {<<>>, <<Plain("c", <<"a">>)>>},
          pg \in {<<>>, <<{"a", "b"}>>}}

(* flows in which two steps share an id, and three in which one of the    *)
(* two carries a condition that is false when it is evaluated             *)
DuplicateIdFlows ==
    UNION {{[steps |-> [i \in 1..Len(ids) |-> Plain(ids[i], d[i])],
             parallel_groups |-> <<>>]
            : d \in [1..Len(ids) -> ShortDepLists]}
           : ids \in {<<"a", "a">>, <<"a", "b", "a">>, <<"a", "a", "b">>}}
    \cup {[steps |-> <<Plain("a", <<>>),
                       StepConfig("a", "t", <<>>, 0, <<>>, DepPrefix)>>,
           parallel_groups |-> <<>>],
          [steps |-> <<StepConfig("a", "t", <<>>, 0, <<>>, DepPrefix),
                       Plain("a", <<>>)>>,
           parallel_groups |-> <<>>],
          [steps |-> <<Plain("a", <<>>),
                       StepConfig("a", "t", <<>>, 0, <<>>, DepCondition("a"))>>,
           parallel_groups |-> <<>>]}

(* declared parallel groups: overlapping, partial, in any order, and one  *)
(* naming an id that no step has                                          *)
GroupLists ==
    {<<{"a", "b"}>>, <<{"a", "b", "c"}>>, <<{"b", "c"}, {"a", "b"}>>,
     <<{"c"}, {"a", "b"}>>, <<{"z"}, {"b", "c"}>>}

GroupFlows ==
    {[steps |-> [i \in 1..3 |-> Plain(IdNames[i], d[i])],
      parallel_groups |-> pg]
        : d \in [1..3 -> {<<>>, <<"a">>}], pg \in GroupLists}

(* flows with a step whose id is the name of the store's global scope *)
ScopeFlows ==
    {[steps |-> <<Plain(GLOBAL, <<>>)>> \o tl, parallel_groups |-> <<>>]
        : tl \in {<<>>, <<Plain("a", <<>>)>>, <<Plain("a", <<GLOBAL>>)>>}}

(* the parameters mappings of a step: none, one parameter, and a         *)
(* parameter that has the name of a dependency's key                      *)
ParameterMaps ==
    {<<>>, [p |-> "v"], [p |-> "v", dep_a_output |-> "mine"]}

(* flows that pass data along a chain: a tool that returns None or raises *)
(* without a message, then a step with parameters, then a step that       *)
(* lists its dependencies in part or in full                               *)
DataFlows ==
    {[steps |-> <<StepConfig("a", tl, <<>>, 0, <<>>, NoCondition),
                  WithParameters(Plain("b", <<"a">>), params),
                  Plain("c", d)>>,
      parallel_groups |-> <<>>]
        : tl \in {"nul", "mute"}, params \in ParameterMaps,
          d \in {<<"b">>, <<"a", "b">>}}

Flows ==
    GraphFlows \cup ConditionFlows \cup PolicyFlows \cup DuplicateIdFlows
        \cup GroupFlows \cup ScopeFlows \cup DataFlows

(***************************************************************************)
(* execute_task up to its first await, for a flow of the given family:    *)
(* validation, the initial step_results, the first scan and the dispatch   *)
(* of the first wave                                                       *)
(***************************************************************************)
ExecuteTaskOf(flows) ==
    /\ \E cfg \in flows :
        LET errors == ValidateConfig(cfg)
            ids == {cfg.steps[i].id : i \in 1..Len(cfg.steps)}
        IN  /\ config' = cfg
            /\ calls' = [i \in 1..Len(cfg.steps) |-> <<>>]
            /\ IF errors # <<>>
               THEN /\ pc' = "returned"
                    /\ result' = [success |-> FALSE, error_summary |-> errors]
                    /\ tasks' = [i \in 1..Len(cfg.steps) |-> NoTask]
                    /\ UNCHANGED <<step_results, status_log, wave, groups,
                                   group_started, scan_pending>>
               ELSE ExecuteSteps(cfg,
                        [id \in ids |-> StepResult(id, PENDING)],
                        [id \in ids |-> <<PENDING>>],
                        [i \in 1..Len(cfg.steps) |-> NoTask])
    /\ UNCHANGED <<registry, max_workers, context, queue, running, now,
                   expiration_time, ret>>

(* a call of execute_task on an idle scheduler *)
ExecuteTask == pc = "idle" /\ ExecuteTaskOf(Flows)

(* the coroutine _execute_parallel_group starts: gather schedules one     *)
(* _execute_step per member                                                *)
StartGroup ==
    /\ pc = "waiting"
    /\ \E g \in 1..Len(groups) :
        /\ Len(groups[g]) > 1
        /\ g \notin group_started
        /\ group_started' = group_started \cup {g}
        /\ tasks' = [i \in DOMAIN tasks |->
                        IF i \in Range(groups[g])
                        THEN [tasks[i] EXCEPT !.pc = "created"]
                        ELSE tasks[i]]
    /\ UNCHANGED <<registry, max_workers, context, pc, config, step_results,
                   result, wave, groups, queue, running, calls, status_log,
                   scan_pending, now,
                   expiration_time, ret>>

(* an attempt that hands the tool an empty input unless it is the first   *)
(* primary attempt                                                         *)
Submit_FirstInputOnly(t, tool, phase, attempt, fb) ==
    [t EXCEPT !.pc = "queued", !.tool = tool, !.phase = phase,
              !.attempt = attempt, !.fb = fb,
              !.input = IF phase = "primary" /\ attempt = 0
                        THEN t.input ELSE <<>>,
              !.context = ctx_get_all(context, None, now, expiration_time)]

(* one attempt of _execute_with_retry up to its await: the context        *)
(* snapshot and the submission of tool.run to the executor                 *)
Submit(t, tool, phase, attempt, fb) ==
    [t EXCEPT !.pc = "queued", !.tool = tool, !.phase = phase,
              !.attempt = attempt, !.fb = fb,
              !.context = ctx_get_all(context, None, now, expiration_time)]

(* a failure written over the result of every step that is RUNNING, not  *)
(* only over the result of the step that failed                           *)
FailedResult_AllRunning(results, id, error) ==
    [r \in DOMAIN results |->
        IF r = id \/ results[r].status = RUNNING
        THEN [StepResult(r, FAILED) EXCEPT !.error = error]
        ELSE results[r]]

(* a failure recorded without the text of the error *)
FailedResult_DropsError(results, id, error) ==
    [results EXCEPT ![id] = StepResult(id, FAILED)]

(* the except branch of _execute_step: the StepResult of a failure *)
FailedResult(results, id, error) ==
    [results EXCEPT ![id] = [StepResult(id, FAILED) EXCEPT !.error = error]]

(* the success branch of _execute_step: the StepResult of a success *)
CompletedResult(results, step, output) ==
    [results EXCEPT ![step.id] =
        [StepResult(step.id, COMPLETED) EXCEPT !.output = output,
                                               !.tool_used = step.tool]]

(* an _execute_step that goes on to the fallback tools when the primary   *)
(* tool is not registered                                                  *)
StartStep_FallbackOnMissing ==
    \E i \in DOMAIN tasks :
        LET step == config.steps[i]
            id == step.id
            tool == get_tool(registry, step.tool)
            j == NextFallback(step, registry, 1)
            started == [step_results EXCEPT ![id].status = RUNNING]
        IN  /\ tasks[i].pc = "created"
            /\ IF tool = None /\ j = 0
               THEN /\ step_results' =
                          FailedResult(started, id, ToolNotFound(step.tool))
                    /\ status_log' = [status_log EXCEPT ![id] =
                          @ \o <<started[id].status, step_results'[id].status>>]
                    /\ tasks' = [tasks EXCEPT ![i].pc = "done"]
                    /\ queue' = queue
               ELSE /\ step_results' = started
                    /\ status_log' = [status_log EXCEPT
                          ![id] = Append(@, started[id].status)]
                    /\ tasks' = [tasks EXCEPT ![i] =
                          Submit([tasks[i] EXCEPT
                                     !.input = PrepareStepInput(step, started)],
                                 IF tool = None THEN step.fallback_tools[j]
                                 ELSE step.tool,
                                 IF tool = None THEN "fallback" ELSE "primary",
                                 0, IF tool = None THEN j ELSE 0)]
                    /\ queue' = Append(queue, i)
    /\ UNCHANGED <<registry, max_workers, context, pc, config, result, wave,
                   groups, group_started, running, calls,
                   scan_pending, now,
                   expiration_time, ret>>

(* _execute_step from its start to the first await of _execute_with_retry *)
StartStep ==
    \E i \in DOMAIN tasks :
        LET step == config.steps[i]
            id == step.id
            tool == get_tool(registry, step.tool)
            started == [step_results EXCEPT ![id].status = RUNNING]
        IN  /\ tasks[i].pc = "created"
            /\ IF tool = None
               THEN /\ step_results' =
                          FailedResult(started, id, ToolNotFound(step.tool))
                    /\ status_log' = [status_log EXCEPT ![id] =
                          @ \o <<started[id].status, step_results'[id].status>>]
                    /\ tasks' = [tasks EXCEPT ![i].pc = "done"]
                    /\ queue' = queue
               ELSE /\ step_results' = started
                    /\ status_log' = [status_log EXCEPT
                          ![id] = Append(@, started[id].status)]
                    /\ tasks' = [tasks EXCEPT ![i] =
                          Submit([tasks[i] EXCEPT
                                     !.input = PrepareStepInput(step, started)],
                                 step.tool, "primary", 0, 0)]
                    /\ queue' = Append(queue, i)
    /\ UNCHANGED <<registry, max_workers, context, pc, config, result, wave,
                   groups, group_started, running, calls,
                   scan_pending, now,
                   expiration_time, ret>>

(* a pool that starts a thread for every job, whatever its size *)
WorkerStart_Unbounded ==
    /\ queue # <<>>
    /\ LET i == Head(queue) IN
        /\ queue' = Tail(queue)
        /\ running' = running \cup {i}
        /\ tasks' = [tasks EXCEPT ![i].pc = "running"]
        /\ calls' = [calls EXCEPT ![i] =
              Append(@, [tool |-> tasks[i].tool, phase |-> tasks[i].phase,
                         fb |-> tasks[i].fb, input |-> tasks[i].input,
                         context |-> tasks[i].context,
                         outcome |-> "running"])]
    /\ UNCHANGED <<registry, max_workers, context, pc, config, step_results,
                   result, wave, groups, group_started, status_log,
                   scan_pending, now,
                   expiration_time, ret>>

(* a free worker thread of the pool takes the oldest job and calls        *)
(* tool.run                                                                *)
WorkerStart ==
    /\ queue # <<>>
    /\ Cardinality(running) < max_workers
    /\ LET i == Head(queue) IN
        /\ queue' = Tail(queue)
        /\ running' = running \cup {i}
        /\ tasks' = [tasks EXCEPT ![i].pc = "running"]
        /\ calls' = [calls EXCEPT ![i] =
              Append(@, [tool |-> tasks[i].tool, phase |-> tasks[i].phase,
                         fb |-> tasks[i].fb, input |-> tasks[i].input,
                         context |-> tasks[i].context,
                         outcome |-> "running"])]
    /\ UNCHANGED <<registry, max_workers, context, pc, config, step_results,
                   result, wave, groups, group_started, status_log,
                   scan_pending, now,
                   expiration_time, ret>>

(* a pool whose worker is not given back when tool.run is over *)
ToolFinish_KeepsWorker(i, ok, value) ==
    /\ tasks[i].pc = "running"
    /\ running' = running
    /\ tasks' = [tasks EXCEPT ![i].pc = "finished",
                              ![i].outcome = [ok |-> ok, value |-> value]]
    /\ calls' = [calls EXCEPT ![i][Len(calls[i])].outcome =
                    IF ok THEN "returned" ELSE "raised"]
    /\ UNCHANGED <<registry, max_workers, context, pc, config, step_results,
                   result, wave, groups, group_started, queue, status_log,
                   scan_pending, now,
                   expiration_time, ret>>

(* tool.run returns or raises on its worker thread; the worker is free    *)
ToolFinish(i, ok, value) ==
    /\ tasks[i].pc = "running"
    /\ running' = running \ {i}
    /\ tasks' = [tasks EXCEPT ![i].pc = "finished",
                              ![i].outcome = [ok |-> ok, value |-> value]]
    /\ calls' = [calls EXCEPT ![i][Len(calls[i])].outcome =
                    IF ok THEN "returned" ELSE "raised"]
    /\ UNCHANGED <<registry, max_workers, context, pc, config, step_results,
                   result, wave, groups, group_started, queue, status_log,
                   scan_pending, now,
                   expiration_time, ret>>

ToolReturns ==
    \E i \in DOMAIN tasks : ToolFinish(i, TRUE, ToolOutput(tasks[i].tool))

ToolRaises ==
    \E i \in DOMAIN tasks :
        ToolFinish(i, FALSE, ToolError(tasks[i].tool, Len(calls[i])))

(* _execute_with_retry after the primary attempts: the fallback loop from *)
(* position k of fallback_tools up to its next await, or the final raise  *)
(* caught by _execute_step                                                 *)
TryFallbacks(i, t, k) ==
    LET step == config.steps[i]
        j == NextFallback(step, registry, k)
    IN  IF j # 0
        THEN /\ tasks' = [tasks EXCEPT ![i] =
                    Submit(t, step.fallback_tools[j], "fallback", t.attempt, j)]
             /\ queue' = Append(queue, i)
             /\ UNCHANGED <<step_results, status_log, context>>
        ELSE /\ tasks' = [tasks EXCEPT ![i] = [t EXCEPT !.pc = "done"]]
             /\ step_results' = FailedResult(step_results, step.id, t.last_error)
             /\ status_log' = [status_log EXCEPT
                   ![step.id] = Append(@, step_results'[step.id].status)]
             /\ UNCHANGED <<queue, context>>

(* a retry loop that makes one attempt too many *)
MoreAttempts_OffByOne(attempt, step) == attempt <= step.retry_count

(* a retry loop that gives up after the first attempt *)
MoreAttempts_Never(attempt, step) == FALSE

(* after a failed primary attempt: does another one follow (the test of  *)
(* the retry loop, attempt < step.retry_count)?                           *)
MoreAttempts(attempt, step) == attempt < step.retry_count

(***************************************************************************)
(* The pre-flight check of a caller: a parsed flow is handed to           *)
(* ConfigParser.validate_config.                                          *)
(***************************************************************************)
ParserIds == {"a", "b"}
ParserDepNames == ParserIds \cup {"z"}

RECURSIVE NameLists(_, _)
NameLists(names, n) ==
    IF n = 0 THEN {<<>>}
    ELSE LET shorter == NameLists(names, n - 1) IN
         shorter \cup {Append(d, x) : d \in {e \in shorter : Len(e) = n - 1},
                                      x \in names}

(* steps with and without a tool, with dependencies on steps, on          *)
(* themselves, on ids no step has, some of them named twice               *)
ParserSteps ==
    {StepConfig(id, tool, deps, 0, <<>>, NoCondition)
        : id \in ParserIds, tool \in {"t", ""},
          deps \in NameLists(ParserDepNames, MaxDeps)}

ParserGroups ==
    {<<>>, <<<<"a">>>>, <<<<"a", "b">>, <<"b">>>>, <<<<"a", "z">>>>,
     <<<<"z", "z">>, <<"y">>>>}

(* flows of up to two steps, with unique and with repeated ids *)
ParserFlows ==
    {[steps |-> st, parallel_groups |-> pg]
        : st \in {<<>>} \cup {<<x>> : x \in ParserSteps}
                 \cup {<<x, y>> : x \in ParserSteps, y \in ParserSteps},
          pg \in ParserGroups}

ConfigInit ==
    /\ registry = <<>>
    /\ max_workers = 1
    /\ context = <<>>
    /\ pc = "parsed"
    /\ config \in ParserFlows
    /\ step_results = <<>>
    /\ result = <<>>
    /\ wave = 0
    /\ groups = <<>>
    /\ group_started = {}
    /\ tasks = <<>>
    /\ queue = <<>>
    /\ running = {}
    /\ calls = <<>>
    /\ status_log = <<>>
    /\ scan_pending = 0
    /\ now = 0
    /\ expiration_time = MaxTTL
    /\ ret = None

(* errors = ConfigParser.validate_config(config) *)
Validate ==
    /\ pc = "parsed"
    /\ result' = validate_config(config)
    /\ pc' = "validated"
    /\ UNCHANGED <<registry, max_workers, context, config, step_results, wave,
                   groups, group_started, tasks, queue, running, calls,
                   status_log, scan_pending, now, expiration_time, ret>>

ConfigNext == Validate

ConfigSpec == ConfigInit /\ [][ConfigNext]_vars

(***************************************************************************)
(* The context store on its own: a client calls the operations of one     *)
(* ContextManager while the clock advances.  ret records the last call:   *)
(* the operation, its arguments and the value it returned (for set, the   *)
(* value stored).                                                         *)
(***************************************************************************)
CtxStepIds == {None, "a"}       \* step_id arguments; None is the default
CtxKeys == {"k1", "k2"}
CtxValues == {"v1", "v2"}
CtxDefaults == {None, "dflt"}   \* default arguments of get

ContextInit ==
    /\ registry = <<>>
    /\ max_workers = 1
    /\ context = <<>>
    /\ pc = "store"
    /\ config = NoConfig
    /\ step_results = <<>>
    /\ result = NoResult
    /\ wave = 0
    /\ groups = <<>>
    /\ group_started = {}
    /\ tasks = <<>>
    /\ queue = <<>>
    /\ running = {}
    /\ calls = <<>>
    /\ status_log = <<>>
    /\ scan_pending = 0
    /\ now = 0
    /\ expiration_time \in 0..MaxTTL
    /\ ret = [op |-> "init"]

(* context_manager.set(key, value, step_id) *)
CtxSet ==
    /\ \E key \in CtxKeys, value \in CtxValues, step_id \in CtxStepIds :
        /\ context' = ctx_set(context, key, value, step_id, now)
        /\ ret' = [op |-> "set", key |-> key, step_id |-> step_id,
                   value |-> value]
    /\ UNCHANGED <<registry, max_workers, pc, config, step_results, result,
                   wave, groups, group_started, tasks, queue, running, calls,
                   status_log, scan_pending, now, expiration_time>>

(* context_manager.get(key, step_id, default) *)
CtxGet ==
    /\ \E key \in CtxKeys, step_id \in CtxStepIds, default \in CtxDefaults :
        /\ context' = ctx_get_store(context, key, step_id, now,
                                    expiration_time)
        /\ ret' = [op |-> "get", key |-> key, step_id |-> step_id,
                   default |-> default,
                   value |-> ctx_get(context, key, step_id, default, now,
                                     expiration_time)]
    /\ UNCHANGED <<registry, max_workers, pc, config, step_results, result,
                   wave, groups, group_started, tasks, queue, running, calls,
                   status_log, scan_pending, now, expiration_time>>

(* context_manager.get_all(step_id) *)
CtxGetAll ==
    /\ \E step_id \in CtxStepIds :
        ret' = [op |-> "get_all", step_id |-> step_id,
                value |-> ctx_get_all(context, step_id, now, expiration_time)]
    /\ UNCHANGED <<registry, max_workers, context, pc, config, step_results,
                   result, wave, groups, group_started, tasks, queue, running,
                   calls, status_log, scan_pending, now, expiration_time>>

(* context_manager.clear(step_id) *)
CtxClear ==
    /\ \E step_id \in CtxStepIds :
        /\ context' = ctx_clear(context, step_id)
        /\ ret' = [op |-> "clear", step_id |-> step_id]
    /\ UNCHANGED <<registry, max_workers, pc, config, step_results, result,
                   wave, groups, group_started, tasks, queue, running, calls,
                   status_log, scan_pending, now, expiration_time>>

(* context_manager.cleanup_expired() *)
CtxCleanup ==
    /\ context' = ctx_cleanup(context, now, expiration_time)
    /\ ret' = [op |-> "cleanup_expired",
               value |-> ctx_cleanup_count(context, now, expiration_time)]
    /\ UNCHANGED <<registry, max_workers, pc, config, step_results, result,
                   wave, groups, group_started, tasks, queue, running, calls,
                   status_log, scan_pending, now, expiration_time>>

(* time passes *)
Tick ==
    /\ now < MaxTime
    /\ now' = now + 1
    /\ ret' = [op |-> "tick"]
    /\ UNCHANGED <<registry, max_workers, context, pc, config, step_results,
                   result, wave, groups, group_started, tasks, queue, running,
                   calls, status_log, scan_pending, expiration_time>>

ContextNext ==
    \/ CtxSet
    \/ CtxGet
    \/ CtxGetAll
    \/ CtxClear
    \/ CtxCleanup
    \/ Tick

ContextSpec == ContextInit /\ [][ContextNext]_vars

(***************************************************************************)
(* TaskScheduler._check_condition on its own: the condition of step "b" of *)
(* a flow of two steps is evaluated against every assignment of statuses   *)
(* to the two steps.                                                       *)
(***************************************************************************)
ConditionTexts ==
    Conditions \cup {NoCondition, <<"d", "e", "p">>,
                     DepPrefix \o <<"a", "b">>,
                     <<"x">> \o DepCondition("a")}

ConditionStatuses == {PENDING, RUNNING, COMPLETED, FAILED, SKIPPED}

ConditionInit ==
    /\ registry = <<>>
    /\ max_workers = 1
    /\ context = <<>>
    /\ pc = "condition"
    /\ config \in {[steps |-> <<Plain("a", <<>>),
                                StepConfig("b", "t", <<>>, 0, <<>>, c)>>,
                    parallel_groups |-> <<>>] : c \in ConditionTexts}
    /\ step_results \in {[id \in {"a", "b"} |-> StepResult(id, f[id])]
                            : f \in [{"a", "b"} -> ConditionStatuses]}
    /\ result = NoResult
    /\ wave = 0
    /\ groups = <<>>
    /\ group_started = {}
    /\ tasks = <<>>
    /\ queue = <<>>
    /\ running = {}
    /\ calls = <<>>
    /\ status_log = <<>>
    /\ scan_pending = 0
    /\ now = 0
    /\ expiration_time = MaxTTL
    /\ ret = [op |-> "init"]

(* self._check_condition(step, step_results) *)
EvaluateCondition ==
    /\ pc = "condition"
    /\ pc' = "evaluated"
    /\ ret' = [op |-> "check_condition",
               value |-> CheckCondition(config.steps[2], step_results)]
    /\ UNCHANGED <<registry, max_workers, context, config, step_results,
                   result, wave, groups, group_started, tasks, queue, running,
                   calls, status_log, scan_pending, now, expiration_time>>

ConditionNext == EvaluateCondition

ConditionSpec == ConditionInit /\ [][ConditionNext]_vars

(***************************************************************************)
(* TaskScheduler._group_parallel_steps on its own: every ready list of a   *)
(* flow of three steps, with and without a repeated id, against declared   *)
(* parallel groups.                                                        *)
(***************************************************************************)
GroupingIds == {<<"a", "b", "c">>, <<"a", "a", "b">>}

GroupingLists ==
    GroupLists \cup {<<>>, <<{}>>, <<{"a"}, {"a", "b"}>>}

(* the ready lists: positions of steps in the order of config.steps *)
ReadyLists ==
    {<<>>, <<1>>, <<2>>, <<3>>, <<1, 2>>, <<1, 3>>, <<2, 3>>, <<1, 2, 3>>}

GroupingInit ==
    /\ registry = <<>>
    /\ max_workers = 1
    /\ context = <<>>
    /\ pc = "grouping"
    /\ config \in {[steps |-> [i \in 1..3 |-> Plain(ids[i], <<>>)],
                    parallel_groups |-> pg]
                      : ids \in GroupingIds, pg \in GroupingLists}
    /\ step_results = <<>>
    /\ result = NoResult
    /\ wave = 0
    /\ groups = <<>>
    /\ group_started = {}
    /\ tasks = <<>>
    /\ queue = <<>>
    /\ running = {}
    /\ calls = <<>>
    /\ status_log = <<>>
    /\ scan_pending = 0
    /\ now = 0
    /\ expiration_time = MaxTTL
    /\ ret = [op |-> "init"]

(* self._group_parallel_steps(ready_steps, config.parallel_groups) *)
GroupSteps ==
    /\ \E ready \in ReadyLists :
        /\ groups' = GroupParallelSteps(config, ready)
        /\ ret' = [op |-> "group_parallel_steps", ready |-> ready]
    /\ UNCHANGED <<registry, max_workers, context, pc, config, step_results,
                   result, wave, group_started, tasks, queue, running, calls,
                   status_log, scan_pending, now, expiration_time>>

GroupingNext == GroupSteps

GroupingSpec == GroupingInit /\ [][GroupingNext]_vars

(***************************************************************************)
(* ToolRegistry on its own: registrations and lookups in any order.        *)
(***************************************************************************)
RegistryNames == {"x", "y"}

RegistryInit ==
    /\ registry = <<>>
    /\ max_workers = 1
    /\ context = <<>>
    /\ pc = "registry"
    /\ config = NoConfig
    /\ step_results = <<>>
    /\ result = NoResult
    /\ wave = 0
    /\ groups = <<>>
    /\ group_started = {}
    /\ tasks = <<>>
    /\ queue = <<>>
    /\ running = {}
    /\ calls = <<>>
    /\ status_log = <<>>
    /\ scan_pending = 0
    /\ now = 0
    /\ expiration_time = MaxTTL
    /\ ret = [op |-> "init"]

(* registry.register_tool(name, tool_class) *)
RegisterTool ==
    /\ \E name \in RegistryNames, cls \in ToolClasses :
        /\ Generation(registry, name) < MaxRegistrations
        /\ registry' = register_tool(registry, name, cls)
        /\ ret' = [op |-> "register_tool", name |-> name, class |-> cls,
                   raised |-> register_tool_raises(cls)]
    /\ UNCHANGED <<max_workers, context, pc, config, step_results, result,
                   wave, groups, group_started, tasks, queue, running, calls,
                   status_log, scan_pending, now, expiration_time>>

(* registry.get_tool(name) *)
GetTool ==
    /\ \E name \in RegistryNames :
        ret' = [op |-> "get_tool", name |-> name,
                value |-> get_tool(registry, name)]
    /\ UNCHANGED <<registry, max_workers, context, pc, config, step_results,
                   result, wave, groups, group_started, tasks, queue, running,
                   calls, status_log, scan_pending, now, expiration_time>>

RegistryNext ==
    \/ RegisterTool
    \/ GetTool

RegistrySpec == RegistryInit /\ [][RegistryNext]_vars

(***************************************************************************)
(* ConfigParser._substitute_env_vars.  A text is a sequence of characters; *)
(* a document is a tree of tagged nodes: a string, another scalar, a list  *)
(* of nodes, or a dict, kept as the sequence of its key/value pairs.       *)
(***************************************************************************)
Str(text) == [type |-> "str", text |-> text]
Scalar(value) == [type |-> "scalar", value |-> value]
List(items) == [type |-> "list", items |-> items]
Dict(items) == [type |-> "dict", items |-> items]

(* os.environ: N, M and E are set, E to the empty string and M to a text  *)
(* that reads as a token; every other name is unset                       *)
Environ ==
    [name \in {<<"N">>, <<"M">>, <<"E">>} |->
        IF name = <<"N">> THEN <<"v">>
        ELSE IF name = <<"M">> THEN <<"$", "{", "N", "}">>
        ELSE <<>>]

(* the last position of the longest run of characters outside stop that   *)
(* starts at position i; i - 1 when the run is empty                      *)
RECURSIVE RunEnd(_, _, _)
RunEnd(text, i, stop) ==
    IF i > Len(text) \/ text[i] \in stop THEN i - 1
    ELSE RunEnd(text, i + 1, stop)

NoMatch == [matched |-> FALSE]

(* the match of the pattern at position i of the text: "$", "{", a name  *)
(* of one or more characters other than ":" and "}", then optionally ":"  *)
(* and a default without "}", then "}"                                    *)
MatchAt(text, i) ==
    IF i + 1 <= Len(text) /\ text[i] = "$" /\ text[i + 1] = "{"
    THEN LET ne == RunEnd(text, i + 2, {":", "}"}) IN
         IF ne < i + 2 \/ ne + 1 > Len(text) THEN NoMatch
         ELSE IF text[ne + 1] = "}"
              THEN [matched |-> TRUE, start |-> i, end |-> ne + 1,
                    var_name |-> SubSeq(text, i + 2, ne),
                    default_value |-> <<>>]
              ELSE LET de == RunEnd(text, ne + 2, {"}"}) IN
                   IF de + 1 > Len(text) THEN NoMatch
                   ELSE [matched |-> TRUE, start |-> i, end |-> de + 1,
                         var_name |-> SubSeq(text, i + 2, ne),
                         default_value |-> SubSeq(text, ne + 2, de)]
    ELSE NoMatch

(* replace_var(match) *)
replace_var(text, m) ==
    IF m.var_name \in DOMAIN Environ THEN Environ[m.var_name]
    ELSE IF m.default_value # <<>> THEN m.default_value
    ELSE SubSeq(text, m.start, m.end)

(* re.sub(pattern, replace_var, text) from position i on: the matches are *)
(* taken from left to right and the replacements are not searched         *)
RECURSIVE SubFrom(_, _)
SubFrom(text, i) ==
    IF i > Len(text) THEN <<>>
    ELSE LET m == MatchAt(text, i) IN
         IF m.matched
         THEN replace_var(text, m) \o SubFrom(text, m.end + 1)
         ELSE <<text[i]>> \o SubFrom(text, i + 1)

(* ConfigParser._substitute_env_var_in_string *)
substitute_env_var_in_string(text) == SubFrom(text, 1)

(* ConfigParser._substitute_env_vars *)
RECURSIVE substitute_env_vars(_)
substitute_env_vars(data) ==
    IF data.type = "dict"
    THEN Dict([i \in DOMAIN data.items |->
                  [key |-> data.items[i].key,
                   value |-> substitute_env_vars(data.items[i].value)]])
    ELSE IF data.type = "list"
    THEN List([i \in DOMAIN data.items |->
                  substitute_env_vars(data.items[i])])
    ELSE IF data.type = "str"
    THEN Str(substitute_env_var_in_string(data.text))
    ELSE data

(* the texts: one token between a prefix and a suffix *)
EnvNames == {<<"N">>, <<"M">>, <<"E">>, <<"U">>}
EnvDefaults == {<<>>, <<"d">>, <<"$", "{", "N">>}
EnvPrefixes == {<<>>, <<"x">>, <<"$">>}
EnvSuffixes == {<<>>, <<"x">>, <<"}">>}

Token(name, colon, default) ==
    <<"$", "{">> \o name \o (IF colon THEN <<":">> \o default ELSE <<>>)
        \o <<"}">>

EnvTexts ==
    {pre \o Token(name, TRUE, default) \o suf
        : pre \in EnvPrefixes, name \in EnvNames, default \in EnvDefaults,
          suf \in EnvSuffixes}
    \cup {pre \o Token(name, FALSE, <<>>) \o suf
        : pre \in EnvPrefixes, name \in EnvNames, suf \in EnvSuffixes}

(* the documents that hold a text: the text alone, in a list beside an    *)
(* integer, under a key that reads as a token, and in a dict inside a     *)
(* list inside a dict, beside None                                         *)
EnvShapes == 1..4

EnvKey == <<"$", "{", "N", "}">>

Document(shape, text) ==
    IF shape = 1 THEN Str(text)
    ELSE IF shape = 2 THEN List(<<Str(text), Scalar(7)>>)
    ELSE IF shape = 3 THEN Dict(<<[key |-> EnvKey, value |-> Str(text)]>>)
    ELSE Dict(<<[key |-> <<"k">>,
                 value |-> List(<<Scalar(None),
                     Dict(<<[key |-> EnvKey, value |-> Str(text)]>>)>>)]>>)

EnvInit ==
    /\ registry = <<>>
    /\ max_workers = 1
    /\ context = <<>>
    /\ pc = "loaded"
    /\ config \in {Document(shape, text)
                      : shape \in EnvShapes, text \in EnvTexts}
    /\ step_results = <<>>
    /\ result = NoResult
    /\ wave = 0
    /\ groups = <<>>
    /\ group_started = {}
    /\ tasks = <<>>
    /\ queue = <<>>
    /\ running = {}
    /\ calls = <<>>
    /\ status_log = <<>>
    /\ scan_pending = 0
    /\ now = 0
    /\ expiration_time = MaxTTL
    /\ ret = None

(* config_data = ConfigParser._substitute_env_vars(config_data) *)
SubstituteEnvVars ==
    /\ pc = "loaded"
    /\ pc' = "substituted"
    /\ result' = substitute_env_vars(config)
    /\ UNCHANGED <<registry, max_workers, context, config, step_results,
                   wave, groups, group_started, tasks, queue, running, calls,
                   status_log, scan_pending, now, expiration_time, ret>>

EnvNext == SubstituteEnvVars

EnvSpec == EnvInit /\ [][EnvNext]_vars

(* the coroutine of a step resumes after run_in_executor: it records the  *)
(* success, or sleeps before the next primary attempt, or goes on to the  *)
(* fallbacks                                                               *)
Resume ==
    \E i \in DOMAIN tasks :
        LET t == tasks[i]
            step == config.steps[i]
        IN  /\ t.pc = "finished"
            /\ IF t.outcome.ok
               THEN /\ step_results' =
                          CompletedResult(step_results, step, t.outcome.value)
                    /\ status_log' = [status_log EXCEPT
                          ![step.id] = Append(@, step_results'[step.id].status)]
                    /\ context' = ctx_set(context, OutputKey(step.id),
                                          t.outcome.value, step.id, now)
                    /\ tasks' = [tasks EXCEPT ![i].pc = "done"]
                    /\ queue' = queue
               ELSE IF t.phase = "primary"
               THEN IF MoreAttempts(t.attempt, step)
                    THEN /\ tasks' = [tasks EXCEPT
                               ![i].pc = "sleeping",
                               ![i].last_error = t.outcome.value]
                         /\ UNCHANGED <<step_results, status_log, context,
                                        queue>>
                    ELSE TryFallbacks(i,
                             [t EXCEPT !.last_error = t.outcome.value], 1)
               ELSE TryFallbacks(i, t, t.fb + 1)
    /\ UNCHANGED <<registry, max_workers, pc, config, result, wave, groups,
                   group_started, running, calls,
                   scan_pending, now,
                   expiration_time, ret>>

(* asyncio.sleep(retry_delay) is over: the next primary attempt *)
WakeUp ==
    \E i \in DOMAIN tasks :
        /\ tasks[i].pc = "sleeping"
        /\ tasks' = [tasks EXCEPT ![i] =
              Submit(tasks[i], config.steps[i].tool, "primary",
                     tasks[i].attempt + 1, 0)]
        /\ queue' = Append(queue, i)
    /\ UNCHANGED <<registry, max_workers, context, pc, config, step_results,
                   result, wave, groups, group_started, running, calls,
                   status_log,
                   scan_pending, now,
                   expiration_time, ret>>

(* a wave loop that goes on as soon as one task of the wave is done       *)
(* (asyncio.wait with FIRST_COMPLETED in the place of gather)             *)
WaveDone_FirstCompleted ==
    /\ pc = "waiting"
    /\ \E i \in DOMAIN tasks : tasks[i].pc = "done" /\ tasks[i].wave = wave
    /\ ExecuteSteps(config, step_results, status_log, tasks)
    /\ UNCHANGED <<registry, max_workers, context, config, queue, running,
                   calls, now, expiration_time, ret>>

(* asyncio.gather of the wave is done: the next scan, then the next wave  *)
(* or the return of execute_task                                           *)
WaveDone ==
    /\ pc = "waiting"
    /\ \A i \in DOMAIN tasks : tasks[i].pc \in {"none", "done"}
    /\ ExecuteSteps(config, step_results, status_log, tasks)
    /\ UNCHANGED <<registry, max_workers, context, config, queue, running,
                   calls, now, expiration_time, ret>>

Next ==
    \/ ExecuteTask
    \/ StartGroup
    \/ StartStep
    \/ WorkerStart
    \/ ToolReturns
    \/ ToolRaises
    \/ Resume
    \/ WakeUp
    \/ WaveDone

Spec == Init /\ [][Next]_vars

(* The event loop runs every coroutine that can run, a free worker takes  *)
(* the next job, and every tool.run returns or raises.                    *)
FairSpec == Spec /\ WF_vars(Next)

(***************************************************************************)
(* Runs with deterministic tools: "bad" raises at every call, every other  *)
(* tool returns at every call.  The flows have three steps, the first with *)
(* any of three policies, with and without declared parallel groups.       *)
(***************************************************************************)
Fails(tool) == tool = "bad"

GroupRunPolicies ==
    {[tool |-> "t", retry_count |-> 0, fallback_tools |-> <<>>],
     [tool |-> "bad", retry_count |-> 0, fallback_tools |-> <<>>],
     [tool |-> "bad", retry_count |-> MaxRetry, fallback_tools |-> <<"f1">>]}

GroupRunFlows ==
    {[steps |-> <<WithPolicy("a", <<>>, pa), Plain("b", db), Plain("c", dc)>>,
      parallel_groups |-> pg]
        : pa \in GroupRunPolicies, db \in {<<>>, <<"a">>},
          dc \in {<<>>, <<"a">>, <<"b">>}, pg \in GroupLists \cup {<<>>}}

GroupRunInit ==
    /\ registry = [n \in {"t", "f1", "bad"} |-> n]
    /\ max_workers \in 1..MaxWorkers
    /\ context = <<>>
    /\ pc = "idle"
    /\ config = NoConfig
    /\ step_results = <<>>
    /\ result = NoResult
    /\ wave = 0
    /\ groups = <<>>
    /\ group_started = {}
    /\ tasks = <<>>
    /\ queue = <<>>
    /\ running = {}
    /\ calls = <<>>
    /\ status_log = <<>>
    /\ scan_pending = 0
    /\ now = 0
    /\ expiration_time = MaxTTL
    /\ ret = None

ExecuteGroupTask == pc = "idle" /\ ExecuteTaskOf(GroupRunFlows)

(* tool.run is over: the tool returned, or it raised if it is "bad" *)
ToolRuns ==
    \E i \in DOMAIN tasks :
        ToolFinish(i, ~Fails(tasks[i].tool),
                   IF Fails(tasks[i].tool)
                   THEN ToolError(tasks[i].tool, Len(calls[i]))
                   ELSE ToolOutput(tasks[i].tool))

GroupRunNext ==
    \/ ExecuteGroupTask
    \/ StartGroup
    \/ StartStep
    \/ WorkerStart
    \/ ToolRuns
    \/ Resume
    \/ WakeUp
    \/ WaveDone

GroupRunSpec == GroupRunInit /\ [][GroupRunNext]_vars

(***************************************************************************)
(* Two calls of execute_task on one TaskScheduler, as the HTTP service     *)
(* makes them: the registry, the context store and the worker pool are     *)
(* shared, what execute_task keeps in local variables exists once per      *)
(* call.  Here pc, config, step_results, result, wave, groups,             *)
(* group_started, tasks, calls, status_log and scan_pending hold one value *)
(* per call, and a job of the pool is a pair <<call, step>>.  The tools    *)
(* are deterministic and the flows declare no parallel groups, so that     *)
(* every ready step is a task of its own.                                  *)
(***************************************************************************)
Runs == {1, 2}

TwoRunFlows ==
    {[steps |-> <<WithPolicy("a", <<>>, pa)>> \o tl, parallel_groups |-> <<>>]
        : pa \in GroupRunPolicies, tl \in {<<>>, <<Plain("b", <<"a">>)>>}}

TwoRunInit ==
    /\ registry = [n \in {"t", "f1", "bad"} |-> n]
    /\ max_workers \in 1..MaxWorkers
    /\ context = <<>>
    /\ pc = [r \in Runs |-> "idle"]
    /\ config = [r \in Runs |-> NoConfig]
    /\ step_results = [r \in Runs |-> <<>>]
    /\ result = [r \in Runs |-> NoResult]
    /\ wave = [r \in Runs |-> 0]
    /\ groups = [r \in Runs |-> <<>>]
    /\ group_started = [r \in Runs |-> {}]
    /\ tasks = [r \in Runs |-> <<>>]
    /\ queue = <<>>
    /\ running = {}
    /\ calls = [r \in Runs |-> <<>>]
    /\ status_log = [r \in Runs |-> <<>>]
    /\ scan_pending = [r \in Runs |-> 0]
    /\ now = 0
    /\ expiration_time = MaxTTL
    /\ ret = None

(* a scheduler that keeps the step results of the first call for every    *)
(* call with the same step ids                                             *)
RunResults_Shared(all, r) ==
    IF DOMAIN all[1] = DOMAIN all[r] THEN all[1] ELSE all[r]

(* the step_results dict of call r, a local variable of execute_task *)
RunResults(all, r) == all[r]

(* the loop body of _execute_steps of call r, from the scan to the await  *)
(* of gather, and the return of execute_task when no step is ready        *)
RunScan(r, cfg, results, log, ts) ==
    LET sc == Scan(cfg, results)
        gs == GroupParallelSteps(cfg, sc.ready)
        Member(i) == \E g \in 1..Len(gs) : i \in Range(gs[g])
    IN  /\ step_results' = [step_results EXCEPT ![r] = sc.results]
        /\ status_log' = [status_log EXCEPT ![r] =
              [id \in DOMAIN log |->
                  IF sc.results[id].status # results[id].status
                  THEN Append(log[id], sc.results[id].status) ELSE log[id]]]
        /\ scan_pending' = [scan_pending EXCEPT ![r] =
              Cardinality({id \in DOMAIN results :
                              results[id].status = PENDING})]
        /\ pc' = [pc EXCEPT ![r] =
              IF sc.ready = <<>> THEN "returned" ELSE "waiting"]
        /\ result' = [result EXCEPT ![r] =
              IF sc.ready = <<>>
              THEN [success |-> Success(sc.results), error_summary |-> <<>>]
              ELSE @]
        /\ wave' = [wave EXCEPT ![r] = IF sc.ready = <<>> THEN @ ELSE @ + 1]
        /\ groups' = [groups EXCEPT ![r] = IF sc.ready = <<>> THEN <<>> ELSE gs]
        /\ tasks' = [tasks EXCEPT ![r] =
              IF sc.ready = <<>> THEN ts
              ELSE [i \in DOMAIN ts |->
                      IF Member(i)
                      THEN [NoTask EXCEPT !.pc = "created",
                                          !.wave = wave[r] + 1]
                      ELSE ts[i]]]
        /\ group_started' = [group_started EXCEPT ![r] = {}]

(* execute_task of call r up to its first await *)
RunExecuteTask(r) ==
    /\ pc[r] = "idle"
    /\ \E cfg \in TwoRunFlows :
        LET errors == ValidateConfig(cfg)
            ids == {cfg.steps[i].id : i \in 1..Len(cfg.steps)}
        IN  /\ config' = [config EXCEPT ![r] = cfg]
            /\ calls' = [calls EXCEPT ![r] = [i \in 1..Len(cfg.steps) |-> <<>>]]
            /\ IF errors # <<>>
               THEN /\ pc' = [pc EXCEPT ![r] = "returned"]
                    /\ result' = [result EXCEPT ![r] =
                          [success |-> FALSE, error_summary |-> errors]]
                    /\ tasks' = [tasks EXCEPT ![r] =
                          [i \in 1..Len(cfg.steps) |-> NoTask]]
                    /\ UNCHANGED <<step_results, status_log, wave, groups,
                                   group_started, scan_pending>>
               ELSE RunScan(r, cfg,
                        [id \in ids |-> StepResult(id, PENDING)],
                        [id \in ids |-> <<PENDING>>],
                        [i \in 1..Len(cfg.steps) |-> NoTask])
    /\ UNCHANGED <<registry, max_workers, context, queue, running, now,
                   expiration_time, ret>>

(* _execute_step of call r from its start to the first await of           *)
(* _execute_with_retry                                                     *)
RunStartStep(r) ==
    \E i \in DOMAIN tasks[r] :
        LET step == config[r].steps[i]
            id == step.id
            tool == get_tool(registry, step.tool)
            started == [RunResults(step_results, r) EXCEPT
                           ![id].status = RUNNING]
            failed == FailedResult(started, id, ToolNotFound(step.tool))
        IN  /\ tasks[r][i].pc = "created"
            /\ IF tool = None
               THEN /\ step_results' = [step_results EXCEPT ![r] = failed]
                    /\ status_log' = [status_log EXCEPT ![r][id] =
                          @ \o <<started[id].status, failed[id].status>>]
                    /\ tasks' = [tasks EXCEPT ![r][i].pc = "done"]
                    /\ queue' = queue
               ELSE /\ step_results' = [step_results EXCEPT ![r] = started]
                    /\ status_log' = [status_log EXCEPT
                          ![r][id] = Append(@, started[id].status)]
                    /\ tasks' = [tasks EXCEPT ![r][i] =
                          Submit([tasks[r][i] EXCEPT
                                     !.input = PrepareStepInput(step, started)],
                                 step.tool, "primary", 0, 0)]
                    /\ queue' = Append(queue, <<r, i>>)
    /\ UNCHANGED <<registry, max_workers, context, pc, config, result, wave,
                   groups, group_started, running, calls, scan_pending, now,
                   expiration_time, ret>>

(* a free worker thread of the shared pool takes the oldest job *)
PoolStart ==
    /\ queue # <<>>
    /\ Cardinality(running) < max_workers
    /\ LET r == Head(queue)[1]
           i == Head(queue)[2]
       IN  /\ queue' = Tail(queue)
           /\ running' = running \cup {<<r, i>>}
           /\ tasks' = [tasks EXCEPT ![r][i].pc = "running"]
           /\ calls' = [calls EXCEPT ![r][i] =
                 Append(@, [tool |-> tasks[r][i].tool,
                            phase |-> tasks[r][i].phase,
                            fb |-> tasks[r][i].fb,
                            input |-> tasks[r][i].input,
                            context |-> tasks[r][i].context,
                            outcome |-> "running"])]
    /\ UNCHANGED <<registry, max_workers, context, pc, config, step_results,
                   result, wave, groups, group_started, status_log,
                   scan_pending, now, expiration_time, ret>>

(* tool.run of a job is over on its worker thread: the tool returned, or  *)
(* it raised if it is "bad"                                                *)
PoolToolRuns ==
    /\ \E j \in running :
        LET r == j[1]
            i == j[2]
            tool == tasks[r][i].tool
        IN  /\ tasks[r][i].pc = "running"
            /\ running' = running \ {j}
            /\ tasks' = [tasks EXCEPT
                  ![r][i].pc = "finished",
                  ![r][i].outcome =
                      [ok |-> ~Fails(tool),
                       value |-> IF Fails(tool)
                                 THEN ToolError(tool, Len(calls[r][i]))
                                 ELSE ToolOutput(tool)]]
            /\ calls' = [calls EXCEPT ![r][i][Len(calls[r][i])].outcome =
                  IF Fails(tool) THEN "raised" ELSE "returned"]
    /\ UNCHANGED <<registry, max_workers, context, pc, config, step_results,
                   result, wave, groups, group_started, queue, status_log,
                   scan_pending, now, expiration_time, ret>>

(* the fallback loop of call r from position k of fallback_tools up to    *)
(* its next await, or the final raise caught by _execute_step              *)
RunFallbacks(r, i, t, k) ==
    LET step == config[r].steps[i]
        j == NextFallback(step, registry, k)
        failed == FailedResult(RunResults(step_results, r), step.id,
                               t.last_error)
    IN  IF j # 0
        THEN /\ tasks' = [tasks EXCEPT ![r][i] =
                    Submit(t, step.fallback_tools[j], "fallback", t.attempt, j)]
             /\ queue' = Append(queue, <<r, i>>)
             /\ UNCHANGED <<step_results, status_log, context>>
        ELSE /\ tasks' = [tasks EXCEPT ![r][i] = [t EXCEPT !.pc = "done"]]
             /\ step_results' = [step_results EXCEPT ![r] = failed]
             /\ status_log' = [status_log EXCEPT
                   ![r][step.id] = Append(@, failed[step.id].status)]
             /\ UNCHANGED <<queue, context>>

(* the coroutine of a step of call r goes on after tool.run *)
RunResume(r) ==
    \E i \in DOMAIN tasks[r] :
        LET t == tasks[r][i]
            step == config[r].steps[i]
            completed == CompletedResult(RunResults(step_results, r), step,
                                         t.outcome.value)
        IN  /\ t.pc = "finished"
            /\ IF t.outcome.ok
               THEN /\ step_results' = [step_results EXCEPT ![r] = completed]
                    /\ status_log' = [status_log EXCEPT
                          ![r][step.id] = Append(@, completed[step.id].status)]
                    /\ context' = ctx_set(context, OutputKey(step.id),
                                          t.outcome.value, step.id, now)
                    /\ tasks' = [tasks EXCEPT ![r][i].pc = "done"]
                    /\ queue' = queue
               ELSE IF t.phase = "primary"
               THEN IF MoreAttempts(t.attempt, step)
                    THEN /\ tasks' = [tasks EXCEPT
                               ![r][i].pc = "sleeping",
                               ![r][i].last_error = t.outcome.value]
                         /\ UNCHANGED <<step_results, status_log, context,
                                        queue>>
                    ELSE RunFallbacks(r, i,
                             [t EXCEPT !.last_error = t.outcome.value], 1)
               ELSE RunFallbacks(r, i, t, t.fb + 1)
    /\ UNCHANGED <<registry, max_workers, pc, config, result, wave, groups,
                   group_started, running, calls, scan_pending, now,
                   expiration_time, ret>>

(* asyncio.sleep(retry_delay) of a step of call r is over *)
RunWakeUp(r) ==
    \E i \in DOMAIN tasks[r] :
        /\ tasks[r][i].pc = "sleeping"
        /\ tasks' = [tasks EXCEPT ![r][i] =
              Submit(tasks[r][i], config[r].steps[i].tool, "primary",
                     tasks[r][i].attempt + 1, 0)]
        /\ queue' = Append(queue, <<r, i>>)
    /\ UNCHANGED <<registry, max_workers, context, pc, config, step_results,
                   result, wave, groups, group_started, running, calls,
                   status_log, scan_pending, now, expiration_time, ret>>

(* asyncio.gather of the wave of call r is done *)
RunWaveDone(r) ==
    /\ pc[r] = "waiting"
    /\ \A i \in DOMAIN tasks[r] : tasks[r][i].pc \in {"none", "done"}
    /\ RunScan(r, config[r], RunResults(step_results, r), status_log[r],
               tasks[r])
    /\ UNCHANGED <<registry, max_workers, context, config, queue, running,
                   calls, now, expiration_time, ret>>

TwoRunNext ==
    \/ \E r \in Runs : RunExecuteTask(r)
    \/ \E r \in Runs : RunStartStep(r)
    \/ PoolStart
    \/ PoolToolRuns
    \/ \E r \in Runs : RunResume(r)
    \/ \E r \in Runs : RunWakeUp(r)
    \/ \E r \in Runs : RunWaveDone(r)

TwoRunSpec == TwoRunInit /\ [][TwoRunNext]_vars

(***************************************************************************)
(* A run whose context store is not left alone: while execute_task runs,   *)
(* time passes, so that entries expire, and the owner of the store calls   *)
(* clear.                                                                  *)
(***************************************************************************)
StoreFlows ==
    {[steps |-> <<WithPolicy("a", <<>>, pa), Plain("b", <<"a">>)>>,
      parallel_groups |-> <<>>]
        : pa \in {[tool |-> "t", retry_count |-> r, fallback_tools |-> <<>>]
                     : r \in 0..MaxRetry}}
    \cup {[steps |-> <<Plain("a", <<>>), Plain("b", <<>>),
                       Plain("c", <<"a", "b">>)>>,
           parallel_groups |-> pg] : pg \in {<<>>, <<{"a", "b"}>>}}

StoreInit ==
    /\ registry = [n \in {"t"} |-> n]
    /\ max_workers \in 1..MaxWorkers
    /\ context = <<>>
    /\ pc = "idle"
    /\ config = NoConfig
    /\ step_results = <<>>
    /\ result = NoResult
    /\ wave = 0
    /\ groups = <<>>
    /\ group_started = {}
    /\ tasks = <<>>
    /\ queue = <<>>
    /\ running = {}
    /\ calls = <<>>
    /\ status_log = <<>>
    /\ scan_pending = 0
    /\ now = 0
    /\ expiration_time = MaxTTL
    /\ ret = [op |-> "init"]

ExecuteStoreTask == pc = "idle" /\ ExecuteTaskOf(StoreFlows)

StoreNext ==
    \/ ExecuteStoreTask
    \/ StartGroup
    \/ StartStep
    \/ WorkerStart
    \/ ToolReturns
    \/ ToolRaises
    \/ Resume
    \/ WakeUp
    \/ WaveDone
    \/ Tick
    \/ CtxClear

StoreSpec == StoreInit /\ [][StoreNext]_vars

(***************************************************************************)
(* Properties                                                              *)
(***************************************************************************)
UniqueIds(cfg) ==
    \A i, j \in 1..Len(cfg.steps) :
        cfg.steps[i].id = cfg.steps[j].id => i = j

(* the statuses written to the result of id by the step being taken *)
Written(id) ==
    SubSeq(status_log'[id], Len(status_log[id]) + 1, Len(status_log'[id]))

(* the step being taken starts a tool.run of step i *)
Invokes(i) == Len(calls'[i]) > Len(calls[i])

(* C1: in a flow with unique step ids, a step's status is set to RUNNING, *)
(* and its tool is invoked, only in a state in which every step listed in *)
(* its dependencies has status COMPLETED, whatever the interleaving of    *)
(* the steps that execute concurrently.                                   *)
C1_RunsAfterDependencies ==
    [][(pc = "waiting" /\ UniqueIds(config)) =>
        \A i \in DOMAIN tasks :
            (RUNNING \in Range(Written(config.steps[i].id)) \/ Invokes(i))
            => \A k \in 1..Len(config.steps[i].dependencies) :
                   step_results[config.steps[i].dependencies[k]].status
                       = COMPLETED]_vars

(* a step that has dependencies runs its tool, next to a step of the same *)
(* wave that is still waiting for a worker                                *)
C1_Witness ==
    /\ pc = "waiting"
    /\ UniqueIds(config)
    /\ \E i, j \in DOMAIN tasks :
        /\ config.steps[i].dependencies # <<>>
        /\ tasks[i].pc = "running"
        /\ tasks[j].pc = "queued"

(* the coroutine of the step has run: its status has been set to RUNNING *)
Started(t) == t.pc \notin {"none", "grouped", "created"}

StatusOf(i) == step_results[config.steps[i].id].status

(* C2: wave barrier.  Every step dispatched in a wave is COMPLETED or     *)
(* FAILED, its coroutine over, before a step of a later wave enters       *)
(* RUNNING; and the scheduler scans (dispatches the next wave or returns) *)
(* only in a state in which no step is RUNNING and no coroutine of the    *)
(* wave is left.                                                          *)
C2_WaveBarrier ==
    /\ [](pc = "waiting" =>
            \A i, j \in DOMAIN tasks :
                (/\ tasks[i].wave >= 1
                 /\ tasks[i].wave < tasks[j].wave
                 /\ Started(tasks[j]))
                => /\ tasks[i].pc = "done"
                   /\ StatusOf(i) \in {COMPLETED, FAILED})
    /\ [][(pc = "waiting" /\ (wave' # wave \/ pc' = "returned")) =>
            /\ \A id \in DOMAIN step_results :
                   step_results[id].status # RUNNING
            /\ \A i \in DOMAIN tasks : tasks[i].pc \in {"none", "done"}]_vars

(* a step of the second wave is running after a first wave of two steps,  *)
(* one of which needed a second tool.run and the other failed             *)
C2_Witness ==
    /\ pc = "waiting"
    /\ \E i, k, j \in DOMAIN tasks :
        /\ i # k
        /\ tasks[i].wave = 1 /\ tasks[k].wave = 1 /\ tasks[j].wave = 2
        /\ Len(calls[i]) >= 2
        /\ StatusOf(k) = FAILED
        /\ tasks[j].pc = "running"

LegalTransitions ==
    {<<PENDING, RUNNING>>, <<RUNNING, COMPLETED>>, <<RUNNING, FAILED>>,
     <<PENDING, SKIPPED>>}

(* C3: in a flow with unique step ids the statuses written to a step      *)
(* start at PENDING and follow only PENDING->RUNNING, RUNNING->COMPLETED, *)
(* RUNNING->FAILED and PENDING->SKIPPED (so no terminal status is left),  *)
(* RUNNING is written at most once, the status of the result is the last  *)
(* one written, and a result changes only in a scan, which sets a PENDING *)
(* status to SKIPPED and nothing else, or in a step of the coroutine that *)
(* executes that step and no other coroutine.                             *)
C3_StatusTransitions ==
    /\ []((pc # "idle" /\ UniqueIds(config)) =>
            \A id \in DOMAIN status_log :
                LET log == status_log[id] IN
                /\ log[1] = PENDING
                /\ \A k \in 1..(Len(log) - 1) :
                       <<log[k], log[k + 1]>> \in LegalTransitions
                /\ Cardinality({k \in 1..Len(log) : log[k] = RUNNING}) <= 1
                /\ step_results[id].status = log[Len(log)])
    /\ [][(pc = "waiting" /\ UniqueIds(config)) =>
            \A i \in DOMAIN tasks :
                LET id == config.steps[i].id IN
                step_results'[id] # step_results[id] =>
                    \/ /\ wave' # wave \/ pc' = "returned"
                       /\ tasks'[i] = tasks[i]
                       /\ step_results[id].status = PENDING
                       /\ step_results'[id] =
                              [step_results[id] EXCEPT !.status = SKIPPED]
                    \/ /\ tasks[i].pc \in {"created", "finished"}
                       /\ tasks'[i] # tasks[i]
                       /\ \A j \in DOMAIN tasks \ {i} : tasks'[j] = tasks[j]
                       /\ pc' = pc]_vars

(* a run of a flow with unique ids in which one step went to COMPLETED,   *)
(* one to FAILED and one to SKIPPED                                       *)
C3_Witness ==
    /\ pc = "returned"
    /\ UniqueIds(config)
    /\ \E a, b, c \in DOMAIN status_log :
        /\ status_log[a] = <<PENDING, RUNNING, COMPLETED>>
        /\ status_log[b] = <<PENDING, RUNNING, FAILED>>
        /\ status_log[c] = <<PENDING, SKIPPED>>

Deps(i) == Range(config.steps[i].dependencies)

(* execute_task has returned the results of a run (validation passed) *)
Returned == pc = "returned" /\ result.error_summary = <<>>

(* C4: failure is local.  A step one of whose dependencies is FAILED or   *)
(* SKIPPED is never started and its tool never invoked, and it is PENDING *)
(* in the returned result; a step all of whose dependencies end COMPLETED *)
(* ends COMPLETED, FAILED or SKIPPED, whatever happened to other steps.   *)
C4_FailureIsLocal ==
    /\ (pc = "waiting" \/ Returned) =>
            \A i \in DOMAIN tasks :
                (\E d \in Deps(i) :
                    step_results[d].status \in {FAILED, SKIPPED})
                => /\ ~Started(tasks[i])
                   /\ calls[i] = <<>>
                   /\ Returned => StatusOf(i) = PENDING
    /\ Returned =>
            \A i \in DOMAIN tasks :
                (\A d \in Deps(i) : step_results[d].status = COMPLETED)
                => StatusOf(i) \in {COMPLETED, FAILED, SKIPPED}

(* C5: when execute_task returns for a flow that passed validation, no    *)
(* step is RUNNING, and a step is PENDING if and only if one of its       *)
(* dependencies has a final status other than COMPLETED.                  *)
C5_PendingIffUnmetDependency ==
    Returned =>
        \A i \in DOMAIN tasks :
            /\ StatusOf(i) # RUNNING
            /\ StatusOf(i) = PENDING
                   <=> \E d \in Deps(i) : step_results[d].status # COMPLETED

(* C6: for a run that passed validation the success flag is true if and  *)
(* only if every step's final status is COMPLETED or SKIPPED (so it is    *)
(* true for a flow without steps and for one whose steps are all SKIPPED, *)
(* false when a step is PENDING or FAILED).                               *)
C6_SuccessFlag ==
    Returned =>
        (result.success <=>
            \A i \in DOMAIN tasks : StatusOf(i) \in {COMPLETED, SKIPPED})

(* a run with steps, all of them SKIPPED, reports success *)
C6_Witness ==
    /\ Returned
    /\ result.success
    /\ DOMAIN tasks # {}
    /\ \A i \in DOMAIN tasks : StatusOf(i) = SKIPPED

(* C7: termination.  With fair scheduling and tools that return or raise, *)
(* execute_task returns for every flow and every max_workers >= 1; every  *)
(* scan after a wave finds strictly fewer PENDING steps than the scan     *)
(* before it, and no more waves are dispatched than the flow has steps.   *)
C7_Termination ==
    /\ <>(pc = "returned")
    /\ [](pc # "idle" => wave <= Len(config.steps))
    /\ [][(pc = "waiting" /\ (wave' # wave \/ pc' = "returned")) =>
            scan_pending' < scan_pending]_vars

(* more jobs than workers: a tool.run waits in the queue while every     *)
(* worker of the pool is busy, one of them with a retry                   *)
C7_Witness ==
    /\ pc = "waiting"
    /\ queue # <<>>
    /\ Cardinality(running) = max_workers
    /\ \E i \in running : Len(calls[i]) >= 2

(* the tool.run invocations of the execution of step i that raised, as    *)
(* error texts                                                            *)
RaisedErrors(i) ==
    {ToolError(calls[i][n].tool, n) :
        n \in {m \in 1..Len(calls[i]) : calls[i][m].outcome = "raised"}}

(* the coroutine of step i handles an error raised by tool.run *)
HandlesToolError(i) ==
    /\ tasks[i].pc = "finished"
    /\ ~tasks[i].outcome.ok
    /\ tasks'[i] # tasks[i]

PrimaryCalls(i) ==
    {n \in 1..Len(calls[i]) : calls[i][n].phase = "primary"}

FallbackCalls(i) ==
    {n \in 1..Len(calls[i]) : calls[i][n].phase = "fallback"}

CallsOfTool(i, tool) ==
    {n \in 1..Len(calls[i]) : calls[i][n].tool = tool}

(* the execution of step i is over and its last tool.run raised *)
EndedFailed(i) ==
    /\ tasks[i].pc = "done"
    /\ calls[i] # <<>>
    /\ calls[i][Len(calls[i])].outcome = "raised"

(* C9 as stated, counted by tool: in every step execution the run of the  *)
(* primary tool is invoked at most 1 + retry_count times and the run of   *)
(* each tool named in fallback_tools at most once.                        *)
C9_AttemptsPerTool ==
    pc \in {"waiting", "returned"} =>
        \A i \in DOMAIN tasks :
            LET step == config.steps[i] IN
            /\ Cardinality(CallsOfTool(i, step.tool)) <= 1 + step.retry_count
            /\ \A k \in 1..Len(step.fallback_tools) :
                   step.fallback_tools[k] # step.tool =>
                       Cardinality(CallsOfTool(i, step.fallback_tools[k])) <= 1

(* C9: in every step execution there are at most 1 + retry_count primary  *)
(* attempts and at most one attempt for each entry of fallback_tools (a   *)
(* tool named by two entries, or the primary tool named as a fallback, is *)
(* run once for each entry), so at most 1 + retry_count +                 *)
(* len(fallback_tools) invocations of run in all; an execution that ends  *)
(* in failure with a registered primary tool has made exactly             *)
(* 1 + retry_count primary attempts.                                      *)
C9_AttemptBound ==
    pc \in {"waiting", "returned"} =>
        \A i \in DOMAIN tasks :
            LET step == config.steps[i] IN
            /\ Cardinality(PrimaryCalls(i)) <= 1 + step.retry_count
            /\ \A k \in 1..Len(step.fallback_tools) :
                   Cardinality({n \in FallbackCalls(i) : calls[i][n].fb = k}) <= 1
            /\ \A n \in FallbackCalls(i) :
                   calls[i][n].fb \in 1..Len(step.fallback_tools)
            /\ Len(calls[i]) <=
                   1 + step.retry_count + Len(step.fallback_tools)
            /\ (EndedFailed(i) /\ get_tool(registry, step.tool) # None) =>
                   Cardinality(PrimaryCalls(i)) = 1 + step.retry_count

(* a failed step with retries and two fallback entries that made every    *)
(* attempt it may make                                                     *)
C9_Witness ==
    /\ pc \in {"waiting", "returned"}
    /\ \E i \in DOMAIN tasks :
        /\ EndedFailed(i)
        /\ StatusOf(i) = FAILED
        /\ config.steps[i].retry_count = MaxRetry
        /\ Len(config.steps[i].fallback_tools) = 2
        /\ Len(calls[i]) = 1 + MaxRetry + 2

(* C10: fallback ordering.  In every step execution a fallback is invoked *)
(* only after 1 + retry_count primary attempts, all of which raised; the  *)
(* fallbacks are invoked in the order of fallback_tools, one attempt for  *)
(* each entry, skipping exactly the entries that the registry does not    *)
(* know; an invocation is followed by another only if it raised; an       *)
(* execution that ends in failure has tried every registered entry; and   *)
(* when an invocation returns, the step is COMPLETED with that output.    *)
C10_FallbackOrdering ==
    /\ [](pc \in {"waiting", "returned"} =>
          \A i \in DOMAIN tasks :
            LET step == config.steps[i]
                fbs == step.fallback_tools
                known(k) == get_tool(registry, fbs[k]) # None
                lastfb == IF FallbackCalls(i) = {} THEN 0
                          ELSE calls[i][Len(calls[i])].fb
            IN
            /\ \A n \in 1..Len(calls[i]) :
                /\ n < Len(calls[i]) => calls[i][n].outcome = "raised"
                /\ calls[i][n].phase = "primary" <=> n <= 1 + step.retry_count
                /\ calls[i][n].phase = "fallback" =>
                    LET k == calls[i][n].fb
                        before == IF n - 1 \in FallbackCalls(i)
                                  THEN calls[i][n - 1].fb ELSE 0
                    IN  /\ k \in 1..Len(fbs)
                        /\ calls[i][n].tool = fbs[k]
                        /\ known(k)
                        /\ before < k
                        /\ \A k2 \in (before + 1)..(k - 1) : ~known(k2)
            /\ (EndedFailed(i) /\ get_tool(registry, step.tool) # None) =>
                   \A k \in (lastfb + 1)..Len(fbs) : ~known(k))
    /\ [][\A i \in DOMAIN tasks :
            (tasks[i].pc = "finished" /\ tasks[i].outcome.ok
                 /\ tasks'[i] # tasks[i]) =>
                LET own == config.steps[i].id IN
                /\ tasks'[i].pc = "done"
                /\ calls'[i] = calls[i]
                /\ step_results'[own].status = COMPLETED
                /\ step_results'[own].output =
                       ToolOutput(calls[i][Len(calls[i])].tool)]_vars

(* the primary attempts and the first fallback raised, the second        *)
(* fallback returned, and the step is COMPLETED with its output           *)
C10_Witness ==
    /\ pc \in {"waiting", "returned"}
    /\ \E i \in DOMAIN tasks :
        /\ config.steps[i].fallback_tools = <<"f1", "f2">>
        /\ config.steps[i].retry_count = MaxRetry
        /\ Len(calls[i]) = 1 + MaxRetry + 2
        /\ calls[i][Len(calls[i])].outcome = "returned"
        /\ calls[i][Len(calls[i])].fb = 2
        /\ StatusOf(i) = COMPLETED
        /\ step_results[config.steps[i].id].output = ToolOutput("f2")

(* the execution of step i is over and its last tool.run returned *)
EndedCompleted(i) ==
    /\ tasks[i].pc = "done"
    /\ calls[i] # <<>>
    /\ calls[i][Len(calls[i])].outcome = "returned"

LastCall(i) == calls[i][Len(calls[i])]

(* C11: in a flow with unique step ids, tool_used of every COMPLETED step *)
(* is the registry key of the tool whose run produced the output: the     *)
(* primary when a primary attempt returned, the fallback that returned    *)
(* otherwise.                                                             *)
C11_ToolUsedIsWinner ==
    (pc \in {"waiting", "returned"} /\ UniqueIds(config)) =>
        \A i \in DOMAIN tasks :
            EndedCompleted(i) =>
                /\ StatusOf(i) = COMPLETED
                /\ step_results[config.steps[i].id].tool_used = LastCall(i).tool

(* C12: in a flow with unique step ids, a step whose primary tool raised  *)
(* on its first k calls and returned on call k + 1 is COMPLETED with      *)
(* retry_count = k in its StepResult.                                     *)
C12_RetryCountRecorded ==
    (pc \in {"waiting", "returned"} /\ UniqueIds(config)) =>
        \A i \in DOMAIN tasks :
            (EndedCompleted(i) /\ LastCall(i).phase = "primary") =>
                /\ StatusOf(i) = COMPLETED
                /\ step_results[config.steps[i].id].retry_count =
                       Len(calls[i]) - 1

(* C13: in a flow with unique step ids, a step all of whose attempts      *)
(* raised is FAILED with the text of the error of the last attempt made   *)
(* (the last fallback tried if any, the last primary attempt otherwise).  *)
C13_LastErrorRecorded ==
    (pc \in {"waiting", "returned"} /\ UniqueIds(config)) =>
        \A i \in DOMAIN tasks :
            EndedFailed(i) =>
                /\ StatusOf(i) = FAILED
                /\ step_results[config.steps[i].id].error =
                       ToolError(LastCall(i).tool, Len(calls[i]))

(* C14: a step whose primary tool is not registered never has a tool.run  *)
(* invoked, neither the primary's nor a fallback's, never waits for a     *)
(* worker and never sleeps; once started it is over, and (unique ids) its *)
(* result went PENDING, RUNNING, FAILED and carries the tool-not-found    *)
(* error.                                                                 *)
C14_MissingPrimaryTool ==
    pc \in {"waiting", "returned"} =>
        \A i \in DOMAIN tasks :
            LET step == config.steps[i] IN
            step.tool \notin DOMAIN registry =>
                /\ calls[i] = <<>>
                /\ tasks[i].pc \in {"none", "grouped", "created", "done"}
                /\ (tasks[i].pc = "done" /\ UniqueIds(config)) =>
                       /\ status_log[step.id] = <<PENDING, RUNNING, FAILED>>
                       /\ StatusOf(i) = FAILED
                       /\ step_results[step.id].error = ToolNotFound(step.tool)

(* a step with an unregistered primary tool, retries and a registered     *)
(* fallback has failed, in a run that has returned                        *)
C14_Witness ==
    /\ Returned
    /\ \E i \in DOMAIN tasks :
        /\ config.steps[i].tool \notin DOMAIN registry
        /\ config.steps[i].retry_count > 0
        /\ \E k \in 1..Len(config.steps[i].fallback_tools) :
               config.steps[i].fallback_tools[k] \in DOMAIN registry
        /\ tasks[i].pc = "done"
        /\ StatusOf(i) = FAILED

(* C15: in a run of a flow with unique step ids (the TTL not elapsed,     *)
(* nothing cleared), from the completion of a step on and so when         *)
(* execute_task returns, for every COMPLETED step the store returns, for  *)
(* key step_<id>_output in the scope of the step's id, the step's output, *)
(* get_all of that scope contains it, and tool_used names a registered    *)
(* tool, whatever the order in which the steps of a wave complete.        *)
C15_OutputInContext ==
    (pc \in {"waiting", "returned"} /\ UniqueIds(config)) =>
        \A i \in DOMAIN tasks :
            LET id == config.steps[i].id
                all == ctx_get_all(context, id, now, expiration_time)
            IN  (tasks[i].pc = "done" /\ StatusOf(i) = COMPLETED) =>
                /\ ctx_get(context, OutputKey(id), id, None, now,
                           expiration_time) = step_results[id].output
                /\ OutputKey(id) \in DOMAIN all
                /\ all[OutputKey(id)] = step_results[id].output
                /\ step_results[id].tool_used \in DOMAIN registry

(* a returned run in which two steps of one wave are COMPLETED, the first *)
(* of them by a fallback after the second had its turn on the only worker *)
C15_Witness ==
    /\ Returned
    /\ UniqueIds(config)
    /\ max_workers = 1
    /\ \E i, j \in DOMAIN tasks :
        /\ i < j
        /\ tasks[i].wave = tasks[j].wave
        /\ StatusOf(i) = COMPLETED
        /\ StatusOf(j) = COMPLETED
        /\ step_results[config.steps[i].id].output = ToolOutput("f1")

(* C16: the scheduler writes to the context store only when a step        *)
(* succeeds, and then only the key step_<id>_output in the scope of that  *)
(* step's id; nothing is ever written in the global scope, so the global  *)
(* scope read by get_all() stays as it was before the run, and a step     *)
(* that ends FAILED, SKIPPED or PENDING leaves the store unchanged.       *)
C16_ContextWrites ==
    /\ [][context' # context =>
            \E i \in DOMAIN tasks :
                LET id == config.steps[i].id IN
                /\ tasks[i].pc = "finished" /\ tasks[i].outcome.ok
                /\ tasks'[i].pc = "done"
                /\ step_results'[id].status = COMPLETED
                /\ DOMAIN context' = DOMAIN context \cup {id}
                /\ \A sc \in DOMAIN context \ {id} : context'[sc] = context[sc]
                /\ DOMAIN context'[id] =
                       (IF id \in DOMAIN context THEN DOMAIN context[id]
                        ELSE {}) \cup {OutputKey(id)}
                /\ \A k \in DOMAIN context'[id] \ {OutputKey(id)} :
                       context'[id][k] = context[id][k]]_vars
    /\ [](ctx_get_all(context, None, now, expiration_time) = <<>>)

(* the ids of the steps of a flow *)
IdsOf(cfg) == {cfg.steps[i].id : i \in 1..Len(cfg.steps)}

(* the dependencies of a flow that are the id of no step, as pairs        *)
(* <<position of the step, position in its dependencies>>                 *)
Dangling(cfg) ==
    {ik \in UNION {{<<i, k>> : k \in 1..Len(cfg.steps[i].dependencies)}
                      : i \in 1..Len(cfg.steps)} :
        cfg.steps[ik[1]].dependencies[ik[2]] \notin IdsOf(cfg)}

(* C17: execute_task on a flow with a dependency that is the id of no     *)
(* step returns at once with success false and an error_summary that      *)
(* names every offending step and dependency; no tool is invoked, no      *)
(* step is started or given a result (none leaves PENDING), the steps of  *)
(* the flow whose own dependencies are valid included, and the context    *)
(* store is as it was.                                                    *)
C17_DanglingDependencyAborts ==
    /\ [][(pc = "idle" /\ pc' # "idle" /\ Dangling(config') # {}) =>
            /\ pc' = "returned"
            /\ result'.success = FALSE
            /\ result'.error_summary # <<>>
            /\ \A ik \in Dangling(config') :
                   [step |-> config'.steps[ik[1]].id,
                    unknown |-> config'.steps[ik[1]].dependencies[ik[2]]]
                       \in Range(result'.error_summary)
            /\ context' = context
            /\ step_results' = step_results
            /\ status_log' = status_log]_vars
    /\ []((pc # "idle" /\ Dangling(config) # {}) =>
            /\ pc = "returned"
            /\ \A i \in DOMAIN tasks : tasks[i].pc = "none" /\ calls[i] = <<>>
            /\ queue = <<>> /\ running = {}
            /\ step_results = <<>>
            /\ context = <<>>)

(* a flow with unique ids was rejected for the one dangling dependency of *)
(* a step that also has a valid one, while another step has only valid    *)
(* dependencies                                                           *)
C17_Witness ==
    /\ pc = "returned"
    /\ UniqueIds(config)
    /\ Cardinality(Dangling(config)) = 1
    /\ Len(result.error_summary) = 1
    /\ \E i, j \in 1..Len(config.steps) :
        /\ \A ik \in Dangling(config) : ik[1] = j
        /\ Len(config.steps[j].dependencies) = 2
        /\ i # j

(* a parallel group of the scheduler's flow names an id that no step has *)
DanglingMember(cfg) ==
    \E g \in 1..Len(cfg.parallel_groups) :
        \E id \in cfg.parallel_groups[g] : id \notin IdsOf(cfg)

(* C18: the scheduler's own validation enforces the four structural       *)
(* invariants.  execute_task on a flow with a repeated step id, a         *)
(* dependency or a parallel-group member that is no step's id, or a step  *)
(* with an empty tool name returns with success false and a non-empty     *)
(* error_summary, no step having been given a result or started and no    *)
(* tool invoked.                                                          *)
C18_SchedulerValidatesAll ==
    (pc # "idle" /\ (\/ ~UniqueIds(config)
                     \/ Dangling(config) # {}
                     \/ DanglingMember(config)
                     \/ \E i \in 1..Len(config.steps) :
                            config.steps[i].tool = "")) =>
        /\ pc = "returned"
        /\ result.success = FALSE
        /\ result.error_summary # <<>>
        /\ step_results = <<>>
        /\ \A i \in DOMAIN tasks : tasks[i].pc = "none" /\ calls[i] = <<>>

(* the positions of the errors of one kind in a list of errors *)
ErrorsOfKind(errors, kind) ==
    {n \in 1..Len(errors) : errors[n].kind = kind}

(* the members of the parallel groups that are no step's id, as pairs     *)
(* <<position of the group, position in the group>>                       *)
DanglingMembers(cfg) ==
    {gm \in UNION {{<<g, m>> : m \in 1..Len(cfg.parallel_groups[g])}
                      : g \in 1..Len(cfg.parallel_groups)} :
        cfg.parallel_groups[gm[1]][gm[2]] \notin IdsOf(cfg)}

ToolLess(cfg) == {i \in 1..Len(cfg.steps) : cfg.steps[i].tool = ""}

(* C19: ConfigParser.validate_config returns the empty list if and only   *)
(* if the step ids are pairwise distinct, every dependency and every      *)
(* parallel-group member is the id of a step and every step has a         *)
(* non-empty tool name; it returns one error for each dangling            *)
(* dependency, naming step and dependency, one for each dangling group    *)
(* member, one for each step without a tool, one in all for repeated ids, *)
(* and it leaves the flow as it was.                                      *)
C19_ValidateConfig ==
    /\ [](pc = "validated" =>
            /\ result = <<>> <=>
                   /\ UniqueIds(config)
                   /\ Dangling(config) = {}
                   /\ DanglingMembers(config) = {}
                   /\ ToolLess(config) = {}
            /\ Cardinality(ErrorsOfKind(result, "dependency")) =
                   Cardinality(Dangling(config))
            /\ \A ik \in Dangling(config) :
                   \E n \in ErrorsOfKind(result, "dependency") :
                       /\ result[n].step = config.steps[ik[1]].id
                       /\ result[n].name =
                              config.steps[ik[1]].dependencies[ik[2]]
            /\ Cardinality(ErrorsOfKind(result, "group")) =
                   Cardinality(DanglingMembers(config))
            /\ \A gm \in DanglingMembers(config) :
                   \E n \in ErrorsOfKind(result, "group") :
                       result[n].name = config.parallel_groups[gm[1]][gm[2]]
            /\ Cardinality(ErrorsOfKind(result, "tool")) =
                   Cardinality(ToolLess(config))
            /\ \A i \in ToolLess(config) :
                   \E n \in ErrorsOfKind(result, "tool") :
                       result[n].step = config.steps[i].id
            /\ Cardinality(ErrorsOfKind(result, "duplicate")) =
                   IF UniqueIds(config) THEN 0 ELSE 1
            /\ Len(result) =
                   Cardinality(ErrorsOfKind(result, "dependency"))
                   + Cardinality(ErrorsOfKind(result, "group"))
                   + Cardinality(ErrorsOfKind(result, "tool"))
                   + Cardinality(ErrorsOfKind(result, "duplicate")))
    /\ [][pc' = "validated" => config' = config]_vars

(* validate_config returned four errors, one of each kind, for a flow     *)
(* with a repeated id, one dangling dependency, one dangling group member *)
(* and one step without a tool                                            *)
C19_Witness ==
    /\ pc = "validated"
    /\ Len(result) = 4
    /\ \A kind \in {"duplicate", "dependency", "group", "tool"} :
           Cardinality(ErrorsOfKind(result, kind)) = 1

(* the call just made is a set of key in the scope of step_id *)
Overwrites(key, step_id) ==
    /\ ret'.op = "set"
    /\ ret'.key = key
    /\ Scope(ret'.step_id) = Scope(step_id)

(* the call just made is a clear of the scope of step_id or of everything *)
Clears(step_id) ==
    /\ ret'.op = "clear"
    /\ \/ ret'.step_id \in {None, ""}
       \/ ret'.step_id = Scope(step_id)

(* C20: after set(key, value, step_id), get(key, step_id) returns value   *)
(* and get_all(step_id) maps key to value, in every scope, the global one *)
(* (step_id omitted) included, and this stays so through every later call *)
(* and tick of the clock by which the entry is not expired, not set again *)
(* under the same key and its scope not cleared; a set of another key, in *)
(* the same or in another scope, does not remove it.                      *)
C20_SetThenGet ==
    [][/\ ret'.op = "set" =>
            /\ ctx_get(context', ret'.key, ret'.step_id, None, now',
                       expiration_time') = ret'.value
            /\ ret'.key \in DOMAIN ctx_get_all(context', ret'.step_id, now',
                                               expiration_time')
       /\ \A key \in CtxKeys, step_id \in CtxStepIds :
            LET before == ctx_get(context, key, step_id, None, now',
                                  expiration_time)
                all == ctx_get_all(context', step_id, now', expiration_time')
            IN  (before # None /\ ~Overwrites(key, step_id)
                     /\ ~Clears(step_id)) =>
                    /\ ctx_get(context', key, step_id, None, now',
                               expiration_time') = before
                    /\ key \in DOMAIN all
                    /\ all[key] = before]_vars

(* the scope a call with this step_id argument works on *)
ScopeOfCall(step_id) == IF step_id = None THEN GLOBAL ELSE step_id

(* the store holds an entry under key in the scope *)
Stored(ctx, scope, key) ==
    scope \in DOMAIN ctx /\ key \in DOMAIN ctx[scope]

(* the age of the stored entry at time t is within the expiration time *)
Fresh(ctx, scope, key, t, ttl) ==
    /\ Stored(ctx, scope, key)
    /\ t - ctx[scope][key].timestamp <= ttl

(* the number of stored entries, over all scopes, whose age at time t     *)
(* exceeds the expiration time                                            *)
Stale(ctx, t, ttl) ==
    {sk \in UNION {{<<scope, k>> : k \in DOMAIN ctx[scope]}
                      : scope \in DOMAIN ctx} :
        t - ctx[sk[1]][sk[2]].timestamp > ttl}

(* C21: an entry stored at time t is returned by get and included in      *)
(* get_all at time now exactly when now - t <= expiration_time; when      *)
(* now - t > expiration_time get returns the caller's default and get_all *)
(* omits the key.  No read returns the value of an expired entry, in any  *)
(* scope.                                                                  *)
C21_TTLExpiry ==
    [][/\ ret'.op = "get" =>
            LET scope == ScopeOfCall(ret'.step_id) IN
            ret'.value =
                IF Fresh(context, scope, ret'.key, now, expiration_time)
                THEN context[scope][ret'.key].value
                ELSE ret'.default
       /\ ret'.op = "get_all" =>
            LET scope == ScopeOfCall(ret'.step_id) IN
            /\ DOMAIN ret'.value =
                   {k \in CtxKeys :
                        Fresh(context, scope, k, now, expiration_time)}
            /\ \A k \in DOMAIN ret'.value :
                   ret'.value[k] = context[scope][k].value]_vars

(* get_all has just left out an entry older than the expiration time and  *)
(* returned one whose age equals it                                       *)
C21_Witness ==
    /\ ret.op = "get_all"
    /\ expiration_time = 1
    /\ LET scope == ScopeOfCall(ret.step_id) IN
       /\ Stored(context, scope, "k1")
       /\ Stored(context, scope, "k2")
       /\ now - context[scope]["k1"].timestamp > expiration_time
       /\ now - context[scope]["k2"].timestamp = expiration_time
       /\ DOMAIN ret.value = {"k2"}

(* C22: get and get_all evict lazily: after get(key, step_id) the store   *)
(* holds no expired entry under that key and scope, after get_all(step_id)*)
(* it holds no expired entry in that scope, so a cleanup_expired right    *)
(* after the read does not count them.                                    *)
C22_LazyEviction ==
    [][/\ ret'.op = "get" =>
            LET scope == ScopeOfCall(ret'.step_id) IN
            /\ Stored(context', scope, ret'.key) =>
                   Fresh(context', scope, ret'.key, now', expiration_time')
            /\ \A sk \in Stale(context', now', expiration_time') :
                   sk # <<scope, ret'.key>>
       /\ ret'.op = "get_all" =>
            LET scope == ScopeOfCall(ret'.step_id) IN
            \A sk \in Stale(context', now', expiration_time') :
                sk[1] # scope]_vars

(* C23: cleanup_expired removes exactly the expired entries, in every     *)
(* scope, and returns their number; afterwards the store holds no expired *)
(* entry and no empty scope, the entries that are not expired are         *)
(* unchanged, and a second call at the same time returns 0.               *)
C23_CleanupExpired ==
    [][ret'.op = "cleanup_expired" =>
          /\ ret'.value = Cardinality(Stale(context, now, expiration_time))
          /\ Stale(context', now', expiration_time') = {}
          /\ \A scope \in DOMAIN context' : DOMAIN context'[scope] # {}
          /\ \A scope \in DOMAIN context : \A k \in DOMAIN context[scope] :
                 IF Fresh(context, scope, k, now, expiration_time)
                 THEN /\ Stored(context', scope, k)
                      /\ context'[scope][k] = context[scope][k]
                 ELSE ~Stored(context', scope, k)
          /\ \A scope \in DOMAIN context' : \A k \in DOMAIN context'[scope] :
                 Stored(context, scope, k)
          /\ ctx_cleanup_count(context', now', expiration_time') = 0
          /\ ctx_cleanup(context', now', expiration_time') = context'
      ]_vars

(* a cleanup has just removed two expired entries, one of them the only   *)
(* entry of its scope, and kept an entry that is not expired              *)
C23_Witness ==
    /\ ret.op = "cleanup_expired"
    /\ ret.value = 2
    /\ DOMAIN context = {"a"}
    /\ DOMAIN context["a"] = {"k2"}

(* the tool.run invocations in progress: <<step index, call number>> *)
InProgress ==
    {c \in UNION {{<<i, n>> : n \in 1..Len(calls[i])} : i \in DOMAIN calls} :
        calls[c[1]][c[2]].outcome = "running"}

(* C24: at every moment the number of tool.run invocations in progress,    *)
(* primary and fallback attempts over all steps and groups of the wave, is *)
(* at most max_workers; further ready steps wait for a free worker.        *)
C24_WorkerBound ==
    /\ Cardinality(InProgress) <= max_workers
    /\ Cardinality(running) <= max_workers
    /\ \A i \in DOMAIN tasks :
          tasks[i].pc = "queued" => \E k \in 1..Len(queue) : queue[k] = i

(* every worker of the pool is busy, one of them with a fallback attempt, *)
(* while the tool.run of another step of the wave waits in the queue      *)
C24_Witness ==
    /\ Cardinality(InProgress) = max_workers
    /\ \E c \in InProgress : calls[c[1]][c[2]].phase = "fallback"
    /\ queue # <<>>
    /\ \A k \in 1..Len(queue) : tasks[queue[k]].pc = "queued"

(* the text is "dep_" followed by anything *)
IsDepForm(text) ==
    /\ Len(text) >= 4
    /\ text[1] = "d" /\ text[2] = "e" /\ text[3] = "p" /\ text[4] = "_"

(* C25: an absent or empty condition is true; a condition dep_<X> is true *)
(* exactly when the status of step X at the evaluation is COMPLETED, so   *)
(* it is false when X is PENDING, FAILED or SKIPPED or is not the id of a *)
(* step of the flow; every other non-empty condition is true.             *)
C25_CheckCondition ==
    ret.op = "check_condition" =>
        LET cond == config.steps[2].condition IN
        ret.value =
            IF cond = <<>> THEN TRUE
            ELSE IF IsDepForm(cond)
                 THEN \E id \in DOMAIN step_results :
                         /\ cond = <<"d", "e", "p", "_", id>>
                         /\ step_results[id].status = COMPLETED
                 ELSE TRUE

(* dep_c was evaluated to false in a flow that has no step c, all of      *)
(* whose steps are completed                                               *)
C25_Witness ==
    /\ ret.op = "check_condition"
    /\ config.steps[2].condition = <<"d", "e", "p", "_", "c">>
    /\ \A id \in DOMAIN step_results : step_results[id].status = COMPLETED
    /\ ret.value = FALSE

(* the step being taken is a scan of _execute_steps *)
ScanStep ==
    \/ pc = "idle"
    \/ pc = "waiting" /\ (wave' # wave \/ pc' = "returned")

(* the step being taken sets the result of id to SKIPPED *)
NewlySkipped(id) ==
    /\ step_results'[id].status = SKIPPED
    /\ id \in DOMAIN step_results => step_results[id].status # SKIPPED

(* C26: a step becomes SKIPPED only in a scan in which it is PENDING, all *)
(* its dependencies are COMPLETED and its condition is false; a step with *)
(* a dependency that is not COMPLETED is never SKIPPED; a SKIPPED step    *)
(* never enters RUNNING, its tool is never invoked, its output and error  *)
(* stay unset and no later scan evaluates it again.                       *)
C26_Skipped ==
    /\ [][\A id \in DOMAIN step_results' :
            NewlySkipped(id) =>
                /\ ScanStep
                /\ id \in DOMAIN step_results =>
                       step_results[id].status = PENDING
                /\ \E i \in 1..Len(config'.steps) :
                       /\ config'.steps[i].id = id
                       /\ \A k \in 1..Len(config'.steps[i].dependencies) :
                              step_results'[config'.steps[i].dependencies[k]]
                                  .status = COMPLETED
                       /\ ~CheckCondition(config'.steps[i], step_results')
         ]_vars
    /\ [](\A id \in DOMAIN step_results :
            SKIPPED \in Range(status_log[id]) =>
                /\ status_log[id] = <<PENDING, SKIPPED>>
                /\ step_results[id].status = SKIPPED
                /\ step_results[id].output = None
                /\ step_results[id].error = None
                /\ \A i \in 1..Len(config.steps) :
                       config.steps[i].id = id =>
                           /\ calls[i] = <<>>
                           /\ ~Started(tasks[i])
                           /\ \A k \in 1..Len(config.steps[i].dependencies) :
                                  step_results[config.steps[i].dependencies[k]]
                                      .status = COMPLETED)

(* step i of the flow lists the id of step j among its dependencies *)
DependsOn(cfg, i, j) == cfg.steps[j].id \in Range(cfg.steps[i].dependencies)

(* step j is reached from step i along at most n dependencies *)
RECURSIVE Reaches(_, _, _, _)
Reaches(cfg, i, j, n) ==
    \/ DependsOn(cfg, i, j)
    \/ /\ n > 1
       /\ \E k \in 1..Len(cfg.steps) :
              DependsOn(cfg, i, k) /\ Reaches(cfg, k, j, n - 1)

OnCycle(cfg, j) == Reaches(cfg, j, j, Len(cfg.steps))

(* step i is on a dependency cycle or depends, transitively, on a step    *)
(* that is                                                                 *)
BehindCycle(cfg, i) ==
    \E j \in 1..Len(cfg.steps) :
        /\ OnCycle(cfg, j)
        /\ i = j \/ Reaches(cfg, i, j, Len(cfg.steps))

(* the flow has a dependency cycle and every dependency names a step *)
Cyclic(cfg) ==
    /\ Dangling(cfg) = {}
    /\ \E j \in 1..Len(cfg.steps) : OnCycle(cfg, j)

(* C27: a flow whose dependencies form a cycle (a step that depends on    *)
(* itself included) passes validation; the steps on the cycle and the     *)
(* steps that depend on it, directly or not, are never dispatched and are *)
(* PENDING in the result, with no error; the other steps run as usual;    *)
(* the run ends, with success false and an empty error_summary.           *)
C27_CyclicFlows ==
    /\ []((pc # "idle" /\ Cyclic(config)) =>
            /\ result.error_summary = <<>>
            /\ \A i \in DOMAIN tasks :
                   BehindCycle(config, i) =>
                       /\ tasks[i].pc = "none"
                       /\ calls[i] = <<>>
                       /\ StatusOf(i) = PENDING
                       /\ step_results[config.steps[i].id].error = None
            /\ pc = "returned" =>
                   /\ result.success = FALSE
                   /\ \A i \in DOMAIN tasks :
                          (/\ ~BehindCycle(config, i)
                           /\ \A d \in Deps(i) :
                                  step_results[d].status = COMPLETED)
                          => StatusOf(i) \in {COMPLETED, FAILED, SKIPPED})
    /\ <>(pc = "returned")

(* C28: get_tool(name) returns the instance made by the latest successful *)
(* registration of the name and None for a name never registered; a       *)
(* registration of a name that is already registered raises nothing,      *)
(* puts a new instance under the name and leaves the instance of every    *)
(* other name as it was; a rejected registration leaves the registry      *)
(* unchanged.                                                              *)
C28_Registry ==
    [][/\ ret'.op = "register_tool" =>
            IF ret'.class \in {"A", "B"}
            THEN /\ ret'.raised = None
                 /\ DOMAIN registry' = DOMAIN registry \cup {ret'.name}
                 /\ registry'[ret'.name].class = ret'.class
                 /\ ret'.name \in DOMAIN registry =>
                        registry'[ret'.name] # registry[ret'.name]
                 /\ \A n \in DOMAIN registry \ {ret'.name} :
                        registry'[n] = registry[n]
            ELSE /\ ret'.raised # None
                 /\ registry' = registry
       /\ ret'.op = "get_tool" =>
            /\ registry' = registry
            /\ IF ret'.name \in DOMAIN registry
               THEN ret'.value = registry[ret'.name]
               ELSE ret'.value = None]_vars

(* get_tool has returned the instance of the second registration of x,    *)
(* of another class than the first, with y registered once in between     *)
C28_Witness ==
    /\ ret.op = "get_tool"
    /\ ret.name = "x"
    /\ "x" \in DOMAIN registry
    /\ ret.value = Instance("B", "x", 2)
    /\ "y" \in DOMAIN registry
    /\ registry["y"] = Instance("A", "y", 1)

(* the text that stands for the token after the substitution, as the     *)
(* claim has it                                                            *)
Substituted(name, colon, default) ==
    IF name \in DOMAIN Environ THEN Environ[name]
    ELSE IF colon THEN default
    ELSE Token(name, FALSE, <<>>)

(* C29: in a string scalar, ${NAME} and ${NAME:default} are replaced by   *)
(* the environment value of NAME when NAME is set; when NAME is unset,    *)
(* ${NAME:default} is replaced by default, the empty default of ${NAME:}  *)
(* included, and ${NAME} is left as it is; the text put in is not         *)
(* searched again, and scalars that are not strings and the keys of       *)
(* mappings are left unchanged.                                            *)
C29_EnvSubstitution ==
    pc = "substituted" =>
        \A shape \in EnvShapes, pre \in EnvPrefixes, name \in EnvNames,
           colon \in BOOLEAN, default \in EnvDefaults, suf \in EnvSuffixes :
            (/\ colon \/ default = <<>>
             /\ config = Document(shape,
                              pre \o Token(name, colon, default) \o suf))
            => result = Document(shape,
                            pre \o Substituted(name, colon, default) \o suf)

(* the position of the first declared group that names the step at       *)
(* position i, 0 when no declared group names it                          *)
FirstGroup(cfg, i) ==
    LET naming == {g \in 1..Len(cfg.parallel_groups) :
                      cfg.steps[i].id \in cfg.parallel_groups[g]}
    IN  IF naming = {} THEN 0
        ELSE CHOOSE g \in naming : \A h \in naming : g <= h

(* C30: _group_parallel_steps partitions the ready set: every ready step  *)
(* is in exactly one returned group, no other step is in any, no group is *)
(* empty; the groups made from parallel_groups come first, in the order   *)
(* of declaration, a step named in several declared groups is only in the *)
(* first of them, and every ready step that no declared group names is a  *)
(* group of its own.                                                       *)
C30_GroupingPartitions ==
    ret.op = "group_parallel_steps" =>
        LET ready == ret.ready
            places == UNION {{<<g, m>> : m \in 1..Len(groups[g])}
                                : g \in 1..Len(groups)}
            Of(g) == FirstGroup(config, groups[g][1])
        IN  /\ \A k \in 1..Len(ready) :
                   Cardinality({gm \in places :
                                   groups[gm[1]][gm[2]] = ready[k]}) = 1
            /\ \A gm \in places : groups[gm[1]][gm[2]] \in Range(ready)
            /\ \A g \in 1..Len(groups) :
                   /\ groups[g] # <<>>
                   /\ \A m \in 1..Len(groups[g]) :
                          FirstGroup(config, groups[g][m]) = Of(g)
                   /\ Of(g) = 0 => Len(groups[g]) = 1
                   /\ Of(g) > 0 =>
                          \A i \in Range(ready) :
                              FirstGroup(config, i) = Of(g)
                                  => i \in Range(groups[g])
            /\ \A g, h \in 1..Len(groups) :
                   g < h => /\ (Of(g) > 0 /\ Of(h) > 0) => Of(g) < Of(h)
                            /\ Of(g) = 0 => Of(h) = 0

(* three ready steps against the declared groups {b, c} and {a, b}: b and *)
(* c form the first group, a is left alone in the second                  *)
C30_Witness ==
    /\ ret.op = "group_parallel_steps"
    /\ ret.ready = <<1, 2, 3>>
    /\ config.parallel_groups = <<{"b", "c"}, {"a", "b"}>>
    /\ UniqueIds(config)
    /\ groups = <<<<2, 3>>, <<1>>>>

(***************************************************************************)
(* C31: the input of every tool.run of a step is the step's parameters     *)
(* plus the key dep_<d>_output, with d's recorded output, for exactly the  *)
(* listed dependencies d whose output is not None: no key for a step that  *)
(* is not listed or for a dependency without output; and the flow config   *)
(* (so its parameters mappings) is the same from the start of the run on.  *)
(***************************************************************************)
WithOutput(i) ==
    {d \in Range(config.steps[i].dependencies) :
        d \in DOMAIN step_results /\ step_results[d].output # None}

InputAssembled(i, input) ==
    LET params == config.steps[i].parameters
        depkeys == {DepKey(d) : d \in WithOutput(i)}
    IN  /\ DOMAIN input = DOMAIN params \cup depkeys
        /\ \A d \in WithOutput(i) : input[DepKey(d)] = step_results[d].output
        /\ \A k \in DOMAIN params \ depkeys : input[k] = params[k]

C31_InputAssembly ==
    /\ [](\A i \in DOMAIN calls : \A n \in 1..Len(calls[i]) :
            InputAssembled(i, calls[i][n].input))
    /\ [][pc # "idle" => config' = config]_vars

(* a returned run of a chain a, b, c: a completed with the output None, b  *)
(* was run with its parameter alone, and c, which lists a and b, with the  *)
(* output of b alone                                                       *)
C31_Witness ==
    /\ pc = "returned"
    /\ Len(config.steps) = 3
    /\ config.steps[3].dependencies = <<"a", "b">>
    /\ config.steps[2].parameters = [p |-> "v"]
    /\ step_results["a"].status = COMPLETED
    /\ step_results["a"].output = None
    /\ Len(calls[2]) = 1 /\ calls[2][1].input = [p |-> "v"]
    /\ Len(calls[3]) = 1
    /\ calls[3][1].input = [dep_b_output |-> ToolOutput("t")]

(***************************************************************************)
(* C32: a step goes to sleep exactly when a primary attempt has failed     *)
(* and another primary attempt remains (attempt < retry_count): never      *)
(* after the last primary attempt or after a fallback; a sleeping step has *)
(* no job in the queue or on a worker, and a queued job is taken whenever  *)
(* fewer than max_workers jobs are on workers, whoever sleeps.             *)
(***************************************************************************)
Sleeping == {i \in DOMAIN tasks : tasks[i].pc = "sleeping"}

AttemptRemains(i) ==
    /\ tasks[i].pc = "finished"
    /\ ~tasks[i].outcome.ok
    /\ tasks[i].phase = "primary"
    /\ tasks[i].attempt < config.steps[i].retry_count

C32_RetryDelay ==
    /\ [][\A i \in DOMAIN tasks :
            (i \in DOMAIN tasks' /\ tasks[i].pc = "finished"
                /\ tasks'[i].pc # "finished") =>
                (tasks'[i].pc = "sleeping" <=> AttemptRemains(i))]_vars
    /\ [][\A i \in DOMAIN tasks' :
            (tasks'[i].pc = "sleeping"
                /\ ~(i \in DOMAIN tasks /\ tasks[i].pc = "sleeping")) =>
                (i \in DOMAIN tasks /\ AttemptRemains(i))]_vars
    /\ [](\A i \in Sleeping : i \notin running /\ i \notin Range(queue))
    /\ []((queue # <<>> /\ Cardinality(running) < max_workers) =>
            ENABLED WorkerStart)

(* a step sleeps between two attempts while other steps of its wave have  *)
(* every worker of the pool                                                *)
C32_Witness ==
    /\ Sleeping # {}
    /\ Cardinality(running) = max_workers
    /\ \A i \in running : tasks[i].pc = "running"

(***************************************************************************)
(* C33: the context argument of every tool.run is the snapshot, taken when *)
(* the attempt is submitted, of the entries of the global scope that are   *)
(* not expired, and the key step_<id>_output of no step of the flow is in  *)
(* the context argument of any tool.run.                                   *)
(***************************************************************************)
GlobalSnapshot(ctx, t, ttl) ==
    [k \in {x \in StepIds \cup {OutputKey(id) : id \in StepIds \cup {GLOBAL}} :
                Fresh(ctx, GLOBAL, x, t, ttl)} |-> ctx[GLOBAL][k].value]

OutputKeysIn(arg) == {id \in IdsOf(config) : OutputKey(id) \in DOMAIN arg}

C33_ContextArgument ==
    /\ [][\A i \in DOMAIN tasks' :
            (tasks'[i].pc = "queued"
                /\ ~(i \in DOMAIN tasks /\ tasks[i].pc = "queued")) =>
                tasks'[i].context =
                    GlobalSnapshot(context', now', expiration_time')]_vars
    /\ [](\A i \in DOMAIN calls : \A n \in 1..Len(calls[i]) :
            OutputKeysIn(calls[i][n].context) = {})

(***************************************************************************)
(* C34: whenever a step is RUNNING (its coroutine started and not yet      *)
(* over), the store holds, for each of its dependencies d, the entry       *)
(* step_<d>_output in the scope d, with the output of d's result: the      *)
(* context write of a completed step precedes the start of any dependent.  *)
(***************************************************************************)
Active(i) ==
    /\ tasks[i].pc \in {"queued", "running", "finished", "sleeping"}
    /\ StatusOf(i) = RUNNING

C34_WriteBeforeDependents ==
    \A i \in DOMAIN tasks :
        Active(i) =>
            \A d \in Range(config.steps[i].dependencies) :
                /\ Stored(context, d, OutputKey(d))
                /\ context[d][OutputKey(d)].value = step_results[d].output

(* a step with two dependencies is on a worker *)
C34_Witness ==
    \E i \in DOMAIN tasks :
        /\ Active(i)
        /\ i \in running
        /\ Len(config.steps[i].dependencies) = 2
        /\ \A d \in Range(config.steps[i].dependencies) :
                Stored(context, d, OutputKey(d))

(***************************************************************************)
(* C35: in the step results execute_task returns, the error of a step is   *)
(* present and not empty exactly when its status is FAILED, an output is   *)
(* set only on a COMPLETED step, and tool_used is unset on every FAILED,   *)
(* SKIPPED and PENDING step.                                               *)
(***************************************************************************)
HasError(r) == r.error \notin {None, ""}

C35_ResultFields ==
    pc = "returned" =>
        \A id \in DOMAIN step_results :
            LET r == step_results[id] IN
            /\ HasError(r) <=> r.status = FAILED
            /\ r.output # None => r.status = COMPLETED
            /\ r.status \in {FAILED, SKIPPED, PENDING} => r.tool_used = None

PreScan ==
    IF pc = "idle"
    THEN [id \in IdsOf(config') |-> StepResult(id, PENDING)]
    ELSE step_results

NewlyDispatched(i) == pc' = "waiting" /\ tasks'[i].wave = wave'

C37_ConditionOnce ==
    /\ [][(ScanStep /\ DOMAIN step_results' # {}) =>
            \A i \in 1..Len(config'.steps) :
                LET step == config'.steps[i]
                    ready == /\ PreScan[step.id].status = PENDING
                             /\ DepsCompleted(step, PreScan)
                IN  /\ (ready /\ CheckCondition(step, PreScan)) =>
                            NewlyDispatched(i)
                    /\ (ready /\ ~CheckCondition(step, PreScan)) =>
                            /\ step_results'[step.id].status = SKIPPED
                            /\ ~NewlyDispatched(i)
                    /\ ~ready =>
                            /\ step_results'[step.id].status =
                                   PreScan[step.id].status
                            /\ ~NewlyDispatched(i)
                    /\ \A x \in 1..Len(config'.steps) :
                            (NewlyDispatched(i)
                                /\ step.condition =
                                       DepCondition(config'.steps[x].id)) =>
                                /\ PreScan[config'.steps[x].id].status
                                       = COMPLETED
                                /\ tasks[x].wave \in 1..wave
                                /\ tasks[x].pc = "done"]_vars
    /\ [][\A id \in DOMAIN step_results :
            (pc # "returned" /\ id \in DOMAIN step_results') =>
                /\ step_results[id].status = SKIPPED =>
                       step_results'[id].status = SKIPPED
                /\ step_results[id].status # PENDING =>
                       step_results'[id].status # PENDING]_vars

(***************************************************************************)
(* C40: the input of a step is assembled once, when the step starts and    *)
(* its primary tool is found, and every tool.run of the step, primary      *)
(* attempt, retry or fallback, gets that input: from the first submission  *)
(* on no step of the run, a completion of another step included, changes   *)
(* the input of the step.                                                  *)
(***************************************************************************)
C40_OneInput ==
    /\ [](\A i \in DOMAIN calls : \A n \in 1..Len(calls[i]) :
            /\ calls[i][n].input = calls[i][1].input
            /\ calls[i][n].input = tasks[i].input)
    /\ [][\A i \in DOMAIN tasks :
            (i \in DOMAIN tasks' /\ pc # "returned"
                /\ tasks[i].pc \notin {"none", "grouped", "created"}) =>
                tasks'[i].input = tasks[i].input]_vars
    /\ [][\A i \in DOMAIN tasks' :
            (i \in DOMAIN tasks /\ tasks'[i].input # tasks[i].input) =>
                /\ tasks[i].pc = "created"
                /\ tasks'[i].pc = "queued"
                /\ tasks'[i].phase = "primary" /\ tasks'[i].attempt = 0
                /\ get_tool(registry, config.steps[i].tool) # None]_vars

(* step b ran three times, a primary attempt, a retry and a fallback, each *)
(* with the output of a in its input, and step c of the same wave is       *)
(* COMPLETED while the fallback of b is on a worker                        *)
C40_Witness ==
    /\ Len(config.steps) = 3
    /\ Len(calls[2]) = 3
    /\ calls[2][2].phase = "primary" /\ calls[2][3].phase = "fallback"
    /\ calls[2][3].outcome = "running"
    /\ \A n \in 1..3 : calls[2][n].input = [dep_a_output |-> ToolOutput("t")]
    /\ tasks[3].wave = tasks[2].wave
    /\ tasks[3].pc = "done" /\ StatusOf(3) = COMPLETED

(***************************************************************************)
(* The run of a flow with its parallel_groups removed, one wave after the  *)
(* other and one step after the other: the reference against which a run   *)
(* with declared groups is compared.                                       *)
(***************************************************************************)
Ungrouped(cfg) == [cfg EXCEPT !.parallel_groups = <<>>]

(* what the attempts of a step end with when "bad" raises and every other  *)
(* registered tool returns                                                 *)
RefOutcome(step, reg) ==
    LET fb == step.fallback_tools
        good == {j \in 1..Len(fb) :
                    get_tool(reg, fb[j]) # None /\ ~Fails(fb[j])}
    IN  IF get_tool(reg, step.tool) = None
        THEN [ok |-> FALSE, value |-> ToolNotFound(step.tool)]
        ELSE IF ~Fails(step.tool)
        THEN [ok |-> TRUE, value |-> ToolOutput(step.tool)]
        ELSE IF good # {}
        THEN [ok |-> TRUE,
              value |-> ToolOutput(fb[CHOOSE j \in good :
                                          \A j2 \in good : j <= j2])]
        ELSE [ok |-> FALSE,
              value |-> ToolError(step.tool, step.retry_count + 1)]

RECURSIVE RefWave(_, _, _, _, _)
RefWave(cfg, reg, results, ready, k) ==
    IF k > Len(ready) THEN results
    ELSE LET step == cfg.steps[ready[k]]
             o == RefOutcome(step, reg)
         IN  RefWave(cfg, reg,
                     IF o.ok THEN CompletedResult(results, step, o.value)
                     ELSE FailedResult(results, step.id, o.value),
                     ready, k + 1)

RECURSIVE RefRun(_, _, _, _, _)
RefRun(cfg, reg, results, waves, w) ==
    LET sc == Scan(cfg, results) IN
    IF sc.ready = <<>> THEN [results |-> sc.results, waves |-> waves]
    ELSE RefRun(cfg, reg, RefWave(cfg, reg, sc.results, sc.ready, 1),
                [i \in DOMAIN waves |->
                    IF i \in Range(sc.ready) THEN w ELSE waves[i]],
                w + 1)

Reference(cfg, reg) ==
    RefRun(Ungrouped(cfg), reg,
           [id \in IdsOf(cfg) |-> StepResult(id, PENDING)],
           [i \in 1..Len(cfg.steps) |-> 0], 1)

C39_RunsDoNotInterfere ==
    /\ \A r \in Runs :
            pc[r] = "returned" =>
                LET ref == Reference(config[r], registry) IN
                /\ step_results[r] = ref.results
                /\ result[r] = [success |-> Success(ref.results),
                                error_summary |-> <<>>]
    /\ \A scope \in DOMAIN context : \A k \in DOMAIN context[scope] :
            /\ k = OutputKey(scope)
            /\ \E r \in Runs :
                    /\ scope \in DOMAIN step_results[r]
                    /\ step_results[r][scope].status = COMPLETED
                    /\ context[scope][k].value = step_results[r][scope].output

(* both calls are in their second wave with step b on a worker; step a of *)
(* the first call was completed by its tool and step a of the second by a  *)
(* fallback, and the store holds the output of the second call             *)
C39_Witness ==
    /\ \A r \in Runs :
            /\ pc[r] = "waiting" /\ wave[r] = 2
            /\ <<r, 2>> \in running
            /\ step_results[r]["a"].status = COMPLETED
    /\ step_results[1]["a"].output = ToolOutput("t")
    /\ step_results[2]["a"].output = ToolOutput("f1")
    /\ context["a"][OutputKey("a")].value = ToolOutput("f1")

====
